---- MODULE Spec2Model ----
(***************************************************************************)
(* Model of the generation pipeline of services/gemini_handler.py:         *)
(* GeminiHandler.generate_definitions (workflow A) and                     *)
(* GeminiHandler.generate_algorithm_problems (workflow B), with the        *)
(* response parsers they call.                                             *)
(*                                                                         *)
(* A Python str is a sequence of tokens.  The tokens "Keyword:",           *)
(* "Definition:" stand for themselves, "<fence>json" and "<fence>" for the *)
(* three-backquote fence (tagged, bare), the JSON lexemes for themselves,  *)
(* and every other token is one character.                                 *)
(* A Python dict is a record, a Python str met where a dict is expected is *)
(* the record [str |-> text].                                              *)
(***************************************************************************)
EXTENDS Integers, Sequences, FiniteSets, TLC

VARIABLES
    mode,          \* args.generate_keywords: which workflow the run takes
    keywords,      \* the input list (keywords / descriptions)
    batch_size,    \* self.batch_size
    pc,            \* position of the run
    i,             \* offset of the current batch (loop variable i)
    j,             \* 1-based index of the next item of the per-item fallback
    batch,         \* the current batch (local variable batch)
    all_results,   \* the accumulating result list (all_results, results)
    all_mappings,  \* workflow B: the description -> keyword dict, in insertion order
    all_batches,   \* workflow B: the (keyword, description) pairs of phase 2
    calls,         \* the transport calls that have returned, with what each returned
    in_flight,     \* the number of transport calls entered and not yet returned
    result,        \* the value returned by the call, once pc = "done"
    arg_response_text,     \* _parse_keyword_definition_response called alone: its argument
    arg_fallback_keyword,  \* its second argument
    parse_result,          \* what the call gave back
    main_pc,       \* main(): position of the command-line run
    args,          \* main(): the parsed command line
    env,           \* main(): the environment variables the settings read
    exit_code,     \* main(): the exit status, once the process has exited
    source_read,   \* main(): the input source has been read
    csvfile,       \* the output file: whether it exists, and its characters
    reply_text,    \* the batch parsers called alone: the text of the reply
    decode_result  \* what each of the three batch parsers made of it

run_vars ==
    <<mode, keywords, batch_size, pc, i, j, batch, all_results, all_mappings, all_batches,
      calls, in_flight, result>>

parse_vars == <<arg_response_text, arg_fallback_keyword, parse_result>>

main_vars == <<main_pc, args, env, exit_code, source_read, csvfile>>

decode_vars == <<reply_text, decode_result>>

\* what a run of one of the two workflows leaves alone
aux_vars == <<parse_vars, main_vars, decode_vars>>

vars == <<run_vars, parse_vars, main_vars, decode_vars>>

----------------------------------------------------------------------------
(* Bounds of the model *)

MaxItems == 2
MaxDescriptions == 2
MaxBatchSize == 2

----------------------------------------------------------------------------
(* Python str and list helpers *)

Whitespace == {" ", "\n"}

RECURSIVE LStrip(_)
LStrip(s) == IF s # <<>> /\ Head(s) \in Whitespace THEN LStrip(Tail(s)) ELSE s

RECURSIVE RStrip(_)
RStrip(s) ==
    IF s # <<>> /\ s[Len(s)] \in Whitespace
    THEN RStrip(SubSeq(s, 1, Len(s) - 1))
    ELSE s

\* str.strip()
Strip(s) == RStrip(LStrip(s))

\* Slice with the upper end one short: keywords[i:i + batch_size - 1]
SliceShort(s, lo, hi) == SubSeq(s, lo + 1, (IF hi > Len(s) THEN Len(s) ELSE hi) - 1)

\* s[lo:hi] of a list, 0-based, hi exclusive and clipped to the length
Slice(s, lo, hi) == SubSeq(s, lo + 1, IF hi > Len(s) THEN Len(s) ELSE hi)

\* the offsets range(0, n, step) visits: none for a negative step; a step of 0 never
\* gets here, the division of total_batches raises before
Range(n, step) == IF step >= 1 THEN {k \in 0..n : k < n /\ k % step = 0} ELSE {}

----------------------------------------------------------------------------
(* Exceptions and results of calls *)

Ret(v) == [raised |-> FALSE, value |-> v]
Raise(t, m) == [raised |-> TRUE, type |-> t, msg |-> m]

\* (n + b - 1) // b, a floor division: it raises ZeroDivisionError for b = 0
total_batches(n, b) ==
    IF b = 0 THEN Raise("ZeroDivisionError", <<"integer division or modulo by zero">>)
    ELSE Ret(IF b > 0 THEN (n + b - 1) \div b
             ELSE 0 - ((n + b - 1 + (0 - b) - 1) \div (0 - b)))

\* the classes an 'except Exception' clause catches
ExceptionClasses ==
    {"TransportError", "ValueError", "TypeError", "AttributeError", "JSONDecodeError",
     "ZeroDivisionError"}

\* a handler that names ValueError only
CaughtOnlyValueError(exc) == exc.type = "ValueError"

\* no handler at all: every exception leaves the method
NothingCaught(exc) == FALSE

\* the exception is caught by an 'except Exception' clause
CaughtByExceptException(exc) == exc.type \in ExceptionClasses

----------------------------------------------------------------------------
(* Characters of a str: the width of a token, offsets, find and slices *)

KeywordPrefixLen == 8
DefinitionPrefixLen == 11
FenceJsonLen == 7
FenceLen == 3

Width(tok) ==
    CASE tok = "Keyword:" -> KeywordPrefixLen
      [] tok = "Definition:" -> DefinitionPrefixLen
      [] tok = "<fence>json" -> FenceJsonLen
      [] tok = "<fence>" -> FenceLen
      [] OTHER -> 1

\* offset of the first character of s[k]
RECURSIVE CharPos(_, _)
CharPos(s, k) == IF k <= 1 THEN 0 ELSE CharPos(s, k - 1) + Width(s[k - 1])

CharLen(s) == CharPos(s, Len(s) + 1)

SetMin(S) == CHOOSE x \in S : \A y \in S : x <= y
SetMax(S) == CHOOSE x \in S : \A y \in S : x >= y

\* tok in s
Contains(s, tok) == \E k \in 1..Len(s) : s[k] = tok

\* s.find(tok): offset of the first occurrence, -1 when there is none
Find(s, tok) ==
    IF Contains(s, tok)
    THEN CharPos(s, SetMin({k \in 1..Len(s) : s[k] = tok}))
    ELSE -1

\* s[lo:hi] by character offsets
CharSlice(s, lo, hi) ==
    LET idx == {k \in 1..Len(s) : CharPos(s, k) >= lo /\ CharPos(s, k) + Width(s[k]) <= hi}
    IN  IF idx = {} THEN <<>> ELSE SubSeq(s, SetMin(idx), SetMax(idx))

\* s.startswith(tok)
StartsWith(s, tok) == s # <<>> /\ Head(s) = tok

\* s.split('\n')
RECURSIVE SplitLines(_)
SplitLines(s) ==
    IF ~Contains(s, "\n")
    THEN <<s>>
    ELSE LET k == SetMin({m \in 1..Len(s) : s[m] = "\n"})
         IN  <<SubSeq(s, 1, k - 1)>> \o SplitLines(SubSeq(s, k + 1, Len(s)))

----------------------------------------------------------------------------
(* _parse_keyword_definition_response *)

\* the loop without its break: a later "Definition:" line replaces the definition
RECURSIVE ScanLinesNoBreak(_, _, _, _)
ScanLinesNoBreak(lines, k, kw, def) ==
    IF k > Len(lines)
    THEN <<kw, def>>
    ELSE LET line == Strip(lines[k])
         IN  IF StartsWith(line, "Keyword:")
             THEN ScanLinesNoBreak(lines, k + 1,
                                   Strip(CharSlice(line, KeywordPrefixLen, CharLen(line))), def)
             ELSE IF StartsWith(line, "Definition:")
                  THEN ScanLinesNoBreak(lines, k + 1, kw,
                                        Strip(CharSlice(line, DefinitionPrefixLen, CharLen(line))))
                  ELSE ScanLinesNoBreak(lines, k + 1, kw, def)

\* the for loop over the lines: k is the next line, kw and def the values so far
RECURSIVE ScanLines(_, _, _, _)
ScanLines(lines, k, kw, def) ==
    IF k > Len(lines)
    THEN <<kw, def>>
    ELSE LET line == Strip(lines[k])
         IN  IF StartsWith(line, "Keyword:")
             THEN ScanLines(lines, k + 1, Strip(CharSlice(line, KeywordPrefixLen, CharLen(line))), def)
             ELSE IF StartsWith(line, "Definition:")
                  THEN <<kw, Strip(CharSlice(line, DefinitionPrefixLen, CharLen(line)))>>
                  ELSE ScanLines(lines, k + 1, kw, def)

\* the positional attempt without the test on the order of the two markers
PositionalParseAnyOrder(response_text, kw, def) ==
    IF Contains(response_text, "Keyword:") /\ Contains(response_text, "Definition:")
    THEN LET keyword_start == Find(response_text, "Keyword:") + KeywordPrefixLen
             definition_start == Find(response_text, "Definition:") + DefinitionPrefixLen
         IN  <<Strip(CharSlice(response_text, keyword_start,
                               definition_start - DefinitionPrefixLen)),
               Strip(CharSlice(response_text, definition_start, CharLen(response_text)))>>
    ELSE <<kw, def>>

\* the positional second attempt, taken when the scan found no definition
PositionalParse(response_text, kw, def) ==
    IF Contains(response_text, "Keyword:") /\ Contains(response_text, "Definition:")
    THEN LET keyword_start == Find(response_text, "Keyword:") + KeywordPrefixLen
             definition_start == Find(response_text, "Definition:") + DefinitionPrefixLen
         IN  IF keyword_start < definition_start
             THEN <<Strip(CharSlice(response_text, keyword_start,
                                    definition_start - DefinitionPrefixLen)),
                    Strip(CharSlice(response_text, definition_start, CharLen(response_text)))>>
             ELSE <<kw, def>>
    ELSE <<kw, def>>

\* returns <<enhanced_keyword, definition>>
parse_keyword_definition_response(response_text, fallback_keyword) ==
    LET scanned == ScanLines(SplitLines(response_text), 1, fallback_keyword, response_text)
    IN  IF scanned[2] = <<>> \/ scanned[2] = response_text
        THEN PositionalParse(response_text, scanned[1], scanned[2])
        ELSE scanned

----------------------------------------------------------------------------
(* json.loads on the lexemes of a reply *)

\* each object lexeme is the JSON text of one object; ObjectOf is the dict it decodes to
CardLexemes == {"{kw:p,def:q}", "{kw:q,def:p}"}
MappingLexemes ==
    {"{desc:x,kw:p}", "{desc:x,kw:q}", "{desc:y,kw:p}", "{desc:y,kw:q}", "{desc:z,kw:p}"}
ObjectLexemes == CardLexemes \cup MappingLexemes

ObjectOf(lex) ==
    CASE lex = "{kw:p,def:q}" -> [keyword |-> <<"p">>, definition |-> <<"q">>]
      [] lex = "{kw:q,def:p}" -> [keyword |-> <<"q">>, definition |-> <<"p">>]
      [] lex = "{desc:x,kw:p}" -> [description |-> <<"x">>, keyword |-> <<"p">>]
      [] lex = "{desc:x,kw:q}" -> [description |-> <<"x">>, keyword |-> <<"q">>]
      [] lex = "{desc:y,kw:p}" -> [description |-> <<"y">>, keyword |-> <<"p">>]
      [] lex = "{desc:y,kw:q}" -> [description |-> <<"y">>, keyword |-> <<"q">>]
      [] lex = "{desc:z,kw:p}" -> [description |-> <<"z">>, keyword |-> <<"p">>]

\* the keys of the decoded dict, in the order iteration gives them
ObjectKeys(lex) ==
    IF lex \in CardLexemes
    THEN <<[str |-> <<"keyword">>], [str |-> <<"definition">>]>>
    ELSE <<[str |-> <<"description">>], [str |-> <<"keyword">>]>>

StringLexemes == {"\"s\""}
ValueLexemes == ObjectLexemes \cup StringLexemes \cup {"null"}

\* the Python value of a lexeme as an element of a list
ElementOf(lex) ==
    IF lex \in ObjectLexemes THEN ObjectOf(lex)
    ELSE IF lex \in StringLexemes THEN [str |-> <<"s">>]
    ELSE [none |-> TRUE]

\* value (, value)*
IsElementList(t) ==
    /\ Len(t) % 2 = 1
    /\ \A k \in 1..Len(t) : IF k % 2 = 1 THEN t[k] \in ValueLexemes ELSE t[k] = ","

\* the elements of a list of values separated by commas
Elements(t) == [k \in 1..((Len(t) + 1) \div 2) |-> ElementOf(t[2 * k - 1])]

IsLexeme(tok) == tok \notin Whitespace

\* json.loads: [ok, kind, elems], elems being what iterating the value yields;
\* ok = FALSE stands for json.JSONDecodeError
json_loads(text) ==
    LET t == SelectSeq(text, IsLexeme)
    IN  CASE Len(t) = 1 /\ t[1] \in ObjectLexemes ->
               [ok |-> TRUE, kind |-> "object", elems |-> ObjectKeys(t[1])]
          [] Len(t) = 1 /\ t[1] \in StringLexemes ->
               [ok |-> TRUE, kind |-> "string", elems |-> <<[str |-> <<"s">>]>>]
          [] Len(t) = 1 /\ t[1] = "null" ->
               [ok |-> TRUE, kind |-> "null", elems |-> <<>>]
          [] Len(t) = 2 /\ t[1] = "[" /\ t[2] = "]" ->
               [ok |-> TRUE, kind |-> "array", elems |-> <<>>]
          [] Len(t) > 2 /\ t[1] = "[" /\ t[Len(t)] = "]"
                /\ IsElementList(SubSeq(t, 2, Len(t) - 1)) ->
               [ok |-> TRUE, kind |-> "array", elems |-> Elements(SubSeq(t, 2, Len(t) - 1))]
          [] OTHER -> [ok |-> FALSE]

\* s.endswith of the bare fence
EndsWithFence(s) == s # <<>> /\ s[Len(s)] = "<fence>"

\* s.startswith of the bare fence: a tagged fence starts with it too
StartsWithFence(s) == s # <<>> /\ Head(s) \in {"<fence>", "<fence>json"}

\* s[3:] of a str that starts with the bare fence
DropFence(s) == IF Head(s) = "<fence>" THEN Tail(s) ELSE <<"j", "s", "o", "n">> \o Tail(s)

\* a clean-up that removes the leading fence only
StripFencesLeadingOnly(response_text) ==
    LET t1 == IF StartsWith(response_text, "<fence>json") THEN Tail(response_text)
              ELSE response_text
    IN  IF StartsWithFence(t1) THEN DropFence(t1) ELSE t1

\* the clean-up of markdown formatting before decoding
StripFences(response_text) ==
    LET t1 == IF StartsWith(response_text, "<fence>json") THEN Tail(response_text)
              ELSE response_text
        t2 == IF StartsWithFence(t1) THEN DropFence(t1) ELSE t1
    IN  IF EndsWithFence(t2) THEN SubSeq(t2, 1, Len(t2) - 1) ELSE t2

----------------------------------------------------------------------------
(* The transport: what one call of client.models.generate_content does.    *)
(* kind "error": the call raises; kind "none": the response has no text;   *)
(* kind "text": the response carries text.                                 *)

TransportError(m) == [kind |-> "error", msg |-> m]
NoText == [kind |-> "none"]
Text(t) == [kind |-> "text", text |-> t]

NoneTypeMsg == <<"'NoneType' object has no attribute 'strip'">>

\* response.text.strip(), the first statement that touches the reply
ResponseText(outcome) ==
    CASE outcome.kind = "error" -> Raise("TransportError", outcome.msg)
      [] outcome.kind = "none" -> Raise("AttributeError", NoneTypeMsg)
      [] OTHER -> Ret(Strip(outcome.text))

----------------------------------------------------------------------------
(* _generate_batch_definitions and _generate_single_definition *)

\* len(results): an array, an object and a str have a length, None has none
HasLen(decoded) == decoded.kind # "null"

\* _generate_batch_definitions raising on a count that differs from the batch
generate_batch_definitions_strict(kws, outcome) ==
    LET r == ResponseText(outcome)
    IN  IF r.raised THEN r
        ELSE LET decoded == json_loads(Strip(StripFences(r.value)))
             IN  IF ~decoded.ok \/ ~HasLen(decoded) \/ Len(decoded.elems) # Len(kws)
                 THEN Raise("ValueError", <<"Failed to parse JSON response: ">>)
                 ELSE Ret(decoded.elems)

\* the values at the head of a text that is not JSON: what a decoder that gives
\* back what it has read so far would return
RECURSIVE ValuesRead(_)
ValuesRead(t) ==
    IF t = <<>> THEN <<>>
    ELSE IF Head(t) \in ValueLexemes THEN <<ElementOf(Head(t))>> \o ValuesRead(Tail(t))
    ELSE IF Head(t) \in {"[", ","} THEN ValuesRead(Tail(t))
    ELSE <<>>

\* _generate_batch_definitions returning the records read before the decoding error
generate_batch_definitions_lenient(kws, outcome) ==
    LET r == ResponseText(outcome)
    IN  IF r.raised THEN r
        ELSE LET decoded == json_loads(Strip(StripFences(r.value)))
             IN  IF ~decoded.ok
                 THEN Ret(ValuesRead(SelectSeq(StripFences(r.value), IsLexeme)))
                 ELSE IF ~HasLen(decoded)
                      THEN Raise("TypeError", <<"object of type 'NoneType' has no len()">>)
                      ELSE Ret(decoded.elems)

generate_batch_definitions(kws, outcome) ==
    LET r == ResponseText(outcome)
    IN  IF r.raised THEN r
        ELSE LET decoded == json_loads(Strip(StripFences(r.value)))
             IN  IF ~decoded.ok
                 THEN Raise("ValueError",
                            <<"Failed to parse JSON response: ", "JSONDecodeError", "\n",
                              "Response: ">> \o outcome.text)
                 ELSE IF ~HasLen(decoded)
                      THEN Raise("TypeError", <<"object of type 'NoneType' has no len()">>)
                      ELSE Ret(decoded.elems)

\* _generate_single_definition swallowing the error: it returns an empty definition
generate_single_definition_swallow(keyword, outcome) ==
    LET r == ResponseText(outcome)
    IN  IF r.raised
        THEN Ret(<<keyword, <<>>>>)
        ELSE Ret(parse_keyword_definition_response(r.value, keyword))

generate_single_definition(keyword, outcome) ==
    LET r == ResponseText(outcome)
    IN  IF r.raised
        THEN Raise("ValueError", <<"Gemini API error: ">> \o r.msg)
        ELSE Ret(parse_keyword_definition_response(r.value, keyword))

Card(kw, def) == [keyword |-> kw, definition |-> def]

\* the error card of the other workflow
WrongErrorCard(keyword, exc) ==
    Card(keyword, <<"Error generating content: ">> \o exc.msg)

\* the card recorded for an item whose individual processing raised
ErrorCard(keyword, exc) ==
    Card(keyword, <<"Error generating definition: ">> \o exc.msg)

----------------------------------------------------------------------------
(* Inputs of a run and replies of the backend *)

Items == {<<"x">>, <<"y">>}

\* every list of at most n items
ListsUpTo(n) == UNION {[1..m -> Items] : m \in 0..n}

\* the input lists of a run: the code never looks into an item, so a list is taken
\* up to the renaming of the items (its first item is "x")
InputLists(n) == {l \in ListsUpTo(n) : l = <<>> \/ l[1] = <<"x">>}

\* a list that splits into a full batch and a partial one, or into three batches
SplitList == <<<<"x">>, <<"y">>, <<"x">>>>

ErrorMessages == {<<"quota exceeded">>}

BatchReplyTexts ==
    { <<"[", "]">>,
      <<"[", "{kw:p,def:q}", "]">>,
      <<"[", "{kw:p,def:q}", ",", "{kw:q,def:p}", "]">>,
      <<"<fence>json", "\n", "[", "{kw:q,def:p}", ",", "{kw:p,def:q}", "]", "\n", "<fence>">>,
      <<"[", "{kw:p,def:q}", ",">>,
      <<"{kw:p,def:q}">>,
      <<"null">> }

SingleReplyTexts ==
    { <<"Keyword:", " ", "p", "\n", "Definition:", " ", "q">>,
      <<"q", "\n", "r">> }

BatchOutcomes ==
    {TransportError(m) : m \in ErrorMessages} \cup {NoText} \cup {Text(t) : t \in BatchReplyTexts}

SingleOutcomes ==
    {TransportError(m) : m \in ErrorMessages} \cup {Text(t) : t \in SingleReplyTexts}

----------------------------------------------------------------------------
(* generate_definitions *)

\* keywords is None: never true of a list
IsNone(list) == FALSE

\* not keywords: the guard of the early return
IsEmptyList(list) == list = <<>>

\* the value of the early return on an empty input
EmptyResult == <<>>

\* the handler around the loop instead of inside it: a failure ends the loop
AfterItemAbort(k, raised) == IF raised THEN k + MaxItems + MaxBatchSize + 1 ELSE k + 1

\* the index of the item the fallback loop takes after item k, whether or not the
\* processing of item k raised: the handler sits inside the loop body
AfterItem(k, raised) == k + 1

\* the offset never advances: the batch is taken again
NoAdvance(k, step) == k

\* the offset of the batch after the one at offset k
NextOffset(k, step) == k + step

\* list.insert(0, x)
ListPrepend(list, x) == <<x>> \o list

\* the new items put in front of the list
ListExtendFront(list, xs) == xs \o list

\* list.append and list.extend
ListAppend(list, x) == Append(list, x)
ListExtend(list, xs) == list \o xs

\* in a run of one of the two workflows the three variables of the parser called
\* alone stay as they are
ParserNotCalled ==
    /\ arg_response_text = <<>>
    /\ arg_fallback_keyword = <<>>
    /\ parse_result = <<>>

NoFile == [exists |-> FALSE, text |-> <<>>]

\* the handler is called directly, not from main()
MainNotRun ==
    /\ main_pc = "off"
    /\ args = <<>>
    /\ env = <<>>
    /\ exit_code = 0
    /\ source_read = FALSE
    /\ csvfile = NoFile

\* the batch parsers are not called alone
DecodersNotCalled ==
    /\ reply_text = <<>>
    /\ decode_result = <<>>

Call(op, at, items, outcome) == [op |-> op, at |-> at, items |-> items, outcome |-> outcome]

Init ==
    /\ mode \in {"definitions", "algorithm_problems"}
    /\ keywords \in IF mode = "definitions"
                    THEN InputLists(MaxItems) \cup {SplitList}
                    ELSE InputLists(MaxDescriptions) \cup {SplitList}
    /\ batch_size \in 1..MaxBatchSize
    /\ pc = "start"
    /\ i = 0
    /\ j = 0
    /\ batch = <<>>
    /\ all_results = <<>>
    /\ all_mappings = <<>>
    /\ all_batches = <<>>
    /\ calls = <<>>
    /\ in_flight = 0
    /\ result = <<>>
    /\ ParserNotCalled
    /\ MainNotRun
    /\ DecodersNotCalled

\* entry: the guard on an empty input, then the initialisation of the loop
GD_Enter ==
    /\ UNCHANGED aux_vars
    /\ pc = "start"
    /\ mode = "definitions"
    /\ IF IsEmptyList(keywords)
       THEN /\ pc' = "done"
            /\ result' = EmptyResult
       ELSE /\ pc' = IF total_batches(Len(keywords), batch_size).raised
                      THEN "raised" ELSE "loop"
            /\ result' = result
    /\ all_results' = <<>>
    /\ i' = 0
    /\ UNCHANGED <<mode, keywords, batch_size, j, batch, all_mappings, all_batches, calls,
                   in_flight>>

\* one iteration of the loop over the batches, up to the first statement of the
\* per-item fallback: the batched call and, when it returns, the extend
GD_BatchWith(outcomes) ==
    /\ UNCHANGED aux_vars
    /\ in_flight >= 1
    /\ in_flight' = in_flight - 1
    /\ pc = "loop"
    /\ mode = "definitions"
    /\ i \in Range(Len(keywords), batch_size)
    /\ LET b == Slice(keywords, i, i + batch_size)
       IN  \E outcome \in outcomes :
             LET r == generate_batch_definitions(b, outcome)
             IN  /\ batch' = b
                 /\ calls' = Append(calls, Call("batch_definitions", i, b, outcome))
                 /\ IF ~r.raised
                    THEN /\ all_results' = ListExtend(all_results, r.value)
                         /\ i' = NextOffset(i, batch_size)
                         /\ pc' = "loop"
                         /\ j' = j
                    ELSE IF CaughtByExceptException(r)
                         THEN /\ pc' = "fallback"
                              /\ j' = 1
                              /\ UNCHANGED <<all_results, i>>
                         ELSE /\ pc' = "raised"
                              /\ UNCHANGED <<all_results, i, j>>
    /\ UNCHANGED <<mode, keywords, batch_size, all_mappings, all_batches, result>>

GD_Batch == GD_BatchWith(BatchOutcomes)

\* one iteration of the per-item fallback loop
GD_Single ==
    /\ UNCHANGED aux_vars
    /\ in_flight >= 1
    /\ in_flight' = in_flight - 1
    /\ pc = "fallback"
    /\ mode = "definitions"
    /\ j \in 1..Len(batch)
    /\ \E outcome \in SingleOutcomes :
         LET keyword == batch[j]
             r == generate_single_definition(keyword, outcome)
         IN  /\ calls' = Append(calls, Call("single_definition", i + j - 1, <<keyword>>, outcome))
             /\ IF r.raised /\ ~CaughtByExceptException(r)
                THEN /\ pc' = "raised"
                     /\ UNCHANGED <<all_results, i, j>>
                ELSE /\ all_results' =
                          ListAppend(all_results,
                                     IF r.raised THEN ErrorCard(keyword, r)
                                     ELSE Card(r.value[1], r.value[2]))
                     /\ IF AfterItem(j, r.raised) > Len(batch)
                        THEN /\ pc' = "loop"
                             /\ i' = NextOffset(i, batch_size)
                             /\ j' = j
                        ELSE /\ pc' = "fallback"
                             /\ j' = AfterItem(j, r.raised)
                             /\ i' = i
    /\ UNCHANGED <<mode, keywords, batch_size, batch, all_mappings, all_batches, result>>

\* the loop is exhausted: return all_results
GD_Return ==
    /\ UNCHANGED aux_vars
    /\ pc = "loop"
    /\ mode = "definitions"
    /\ i \notin Range(Len(keywords), batch_size)
    /\ pc' = "done"
    /\ result' = all_results
    /\ UNCHANGED <<mode, keywords, batch_size, i, j, batch, all_results, all_mappings, all_batches,
                   calls, in_flight>>

----------------------------------------------------------------------------
(* generate_algorithm_problems: the dict of phase 1 *)

\* a Python dict as the list of its <<key, value>> pairs in insertion order
DictHas(d, k) == \E n \in 1..Len(d) : d[n][1] = k

\* d.setdefault(k, v): a key already there keeps its value
DictSetDefault(d, k, v) == IF DictHas(d, k) THEN d ELSE Append(d, <<k, v>>)

\* d[k] = v: a new key goes last, a key already there keeps its place
DictSet(d, k, v) ==
    IF DictHas(d, k)
    THEN [n \in 1..Len(d) |-> IF d[n][1] = k THEN <<k, v>> ELSE d[n]]
    ELSE Append(d, <<k, v>>)

DictKeys(d) == {d[n][1] : n \in 1..Len(d)}

\* result.get(key, '')
Get(el, key) == IF key \in DOMAIN el THEN el[key] ELSE <<>>

\* an element of the decoded reply that is a dict, and so has .get
IsDict(el) == "str" \notin DOMAIN el /\ "none" \notin DOMAIN el

Quotes == {"\"", "'"}

RECURSIVE LStripQuotes(_)
LStripQuotes(s) == IF s # <<>> /\ Head(s) \in Quotes THEN LStripQuotes(Tail(s)) ELSE s

RECURSIVE RStripQuotes(_)
RStripQuotes(s) ==
    IF s # <<>> /\ s[Len(s)] \in Quotes
    THEN RStripQuotes(SubSeq(s, 1, Len(s) - 1))
    ELSE s

\* keyword.strip("\"'")
StripQuotes(s) == RStripQuotes(LStripQuotes(s))

\* the loop over the decoded results: every dict with both fields is stored, the first
\* element that is no dict raises, what was stored before it stays
RECURSIVE StoreMappings(_, _, _)
StoreMappings(mappings, elems, k) ==
    IF k > Len(elems)
    THEN [raised |-> FALSE, mappings |-> mappings]
    ELSE IF ~IsDict(elems[k])
         THEN [raised |-> TRUE, type |-> "AttributeError",
               msg |-> <<"'str' object has no attribute 'get'">>, mappings |-> mappings]
         ELSE LET description == Get(elems[k], "description")
                  keyword == Get(elems[k], "keyword")
              IN  StoreMappings(IF description # <<>> /\ keyword # <<>>
                                THEN DictSet(mappings, description, keyword)
                                ELSE mappings,
                                elems, k + 1)

\* the try block of one batch of _generate_keywords_batch
keywords_batch_try(mappings, outcome) ==
    LET r == ResponseText(outcome)
    IN  IF r.raised
        THEN [raised |-> TRUE, type |-> r.type, msg |-> r.msg, mappings |-> mappings]
        ELSE LET decoded == json_loads(Strip(StripFences(r.value)))
             IN  IF ~decoded.ok
                 THEN [raised |-> TRUE, type |-> "JSONDecodeError",
                       msg |-> <<"JSONDecodeError">>, mappings |-> mappings]
                 ELSE IF ~HasLen(decoded)
                      THEN [raised |-> TRUE, type |-> "TypeError",
                            msg |-> <<"'NoneType' object is not iterable">>,
                            mappings |-> mappings]
                      ELSE StoreMappings(mappings, decoded.elems, 1)

generate_algorithm_keyword(description, outcome) ==
    LET r == ResponseText(outcome)
    IN  IF r.raised
        THEN Raise("ValueError", <<"Gemini API error generating keyword: ">> \o r.msg)
        ELSE Ret(StripQuotes(r.value))

generate_leetcode_definitions_batch(pairs, outcome) ==
    LET r == ResponseText(outcome)
    IN  IF r.raised THEN r
        ELSE LET decoded == json_loads(Strip(StripFences(r.value)))
             IN  IF ~decoded.ok
                 THEN Raise("ValueError",
                            <<"Failed to parse JSON response: ", "JSONDecodeError", "\n",
                              "Response: ">> \o outcome.text)
                 ELSE IF ~HasLen(decoded)
                      THEN Raise("TypeError", <<"object of type 'NoneType' has no len()">>)
                      ELSE Ret(decoded.elems)

\* the try block of the per-pair fallback of phase 2
leetcode_single_try(keyword, description, outcome) ==
    LET r == ResponseText(outcome)
    IN  IF r.raised THEN r
        ELSE Ret(parse_keyword_definition_response(r.value, keyword))

\* the error card under the description of the pair
ContentErrorCardOfDescription(keyword, description, exc) ==
    Card(description, <<"Error generating content: ">> \o exc.msg)

\* the card recorded for a pair whose individual processing raised
ContentErrorCard(keyword, description, exc) ==
    Card(keyword, <<"Error generating content: ">> \o exc.msg)

\* the pairs of the mapping listed from its last entry to its first
PairsOfReversed(mapping) ==
    [n \in 1..Len(mapping) |->
        <<mapping[Len(mapping) + 1 - n][2], mapping[Len(mapping) + 1 - n][1]>>]

\* the (keyword, description) pairs of the mapping, in its order
PairsOf(mapping) == [n \in 1..Len(mapping) |-> <<mapping[n][2], mapping[n][1]>>]

\* the value of the early return on an empty input
EmptyProblems == <<>>

KeywordBatchReplyTexts ==
    { <<"[", "{desc:x,kw:p}", ",", "{desc:y,kw:q}", "]">>,
      <<"[", "{desc:x,kw:q}", "]">>,
      <<"[", "{desc:y,kw:p}", "]">>,
      <<"[", "{desc:z,kw:p}", "]">>,
      <<"[", "{desc:x,kw:q}", ",", "\"s\"", "]">> }

KeywordReplyTexts == { <<"\"", "p", "\"">> }

LeetcodeBatchReplyTexts ==
    { <<"[", "{kw:p,def:q}", "]">>,
      <<"[", "{kw:q,def:p}", "]">>,
      <<"[", "{kw:p,def:q}", ",", "{kw:q,def:p}", "]">> }

KeywordBatchOutcomes ==
    {TransportError(m) : m \in ErrorMessages} \cup {Text(t) : t \in KeywordBatchReplyTexts}

KeywordOutcomes ==
    {TransportError(m) : m \in ErrorMessages} \cup {Text(t) : t \in KeywordReplyTexts}

LeetcodeOutcomes ==
    {TransportError(m) : m \in ErrorMessages} \cup {NoText}
        \cup {Text(<<"Keyword:", " ", "p", "\n", "Definition:", " ", "q">>)}

LeetcodeBatchOutcomes ==
    {TransportError(m) : m \in ErrorMessages} \cup {Text(t) : t \in LeetcodeBatchReplyTexts}

\* entry: the guard on an empty input, then the initialisation of phase 1
GA_Enter ==
    /\ UNCHANGED aux_vars
    /\ pc = "start"
    /\ mode = "algorithm_problems"
    /\ IF IsEmptyList(keywords)
       THEN /\ pc' = "done"
            /\ result' = EmptyProblems
       ELSE /\ pc' = IF total_batches(Len(keywords), batch_size).raised
                      THEN "raised" ELSE "kw_loop"
            /\ result' = result
    /\ all_mappings' = <<>>
    /\ i' = 0
    /\ UNCHANGED <<mode, keywords, batch_size, j, batch, all_results, all_batches, calls,
                   in_flight>>

\* phase 1, one iteration of the loop over the batches: the batched keyword call and
\* the storing of its results
KW_BatchWith(outcomes) ==
    /\ UNCHANGED aux_vars
    /\ in_flight >= 1
    /\ in_flight' = in_flight - 1
    /\ pc = "kw_loop"
    /\ i \in Range(Len(keywords), batch_size)
    /\ LET b == Slice(keywords, i, i + batch_size)
       IN  \E outcome \in outcomes :
             LET r == keywords_batch_try(all_mappings, outcome)
             IN  /\ batch' = b
                 /\ calls' = Append(calls, Call("batch_keywords", i, b, outcome))
                 /\ all_mappings' = r.mappings
                 /\ IF ~r.raised
                    THEN /\ i' = NextOffset(i, batch_size)
                         /\ pc' = "kw_loop"
                         /\ j' = j
                    ELSE IF CaughtByExceptException(r)
                         THEN /\ pc' = "kw_fallback"
                              /\ j' = 1
                              /\ i' = i
                         ELSE /\ pc' = "raised"
                              /\ UNCHANGED <<i, j>>
    /\ UNCHANGED <<mode, keywords, batch_size, all_results, all_batches, result>>

KW_Batch == KW_BatchWith(KeywordBatchOutcomes)

\* phase 1, one iteration of the per-description fallback loop
KW_Single ==
    /\ UNCHANGED aux_vars
    /\ in_flight >= 1
    /\ in_flight' = in_flight - 1
    /\ pc = "kw_fallback"
    /\ j \in 1..Len(batch)
    /\ \E outcome \in KeywordOutcomes :
         LET description == batch[j]
             r == generate_algorithm_keyword(description, outcome)
         IN  /\ calls' = Append(calls, Call("single_keyword", i + j - 1, <<description>>, outcome))
             /\ IF r.raised /\ ~CaughtByExceptException(r)
                THEN /\ pc' = "raised"
                     /\ UNCHANGED <<all_mappings, i, j>>
                ELSE /\ all_mappings' =
                          DictSet(all_mappings, description,
                                  IF r.raised THEN description ELSE r.value)
                     /\ IF AfterItem(j, r.raised) > Len(batch)
                        THEN /\ pc' = "kw_loop"
                             /\ i' = NextOffset(i, batch_size)
                             /\ j' = j
                        ELSE /\ pc' = "kw_fallback"
                             /\ j' = AfterItem(j, r.raised)
                             /\ i' = i
    /\ UNCHANGED <<mode, keywords, batch_size, batch, all_results, all_batches, result>>

\* phase 1 returns the mapping; phase 2 lists its pairs and starts its loop
KW_Return ==
    /\ UNCHANGED aux_vars
    /\ pc = "kw_loop"
    /\ i \notin Range(Len(keywords), batch_size)
    /\ all_batches' = PairsOf(all_mappings)
    /\ all_results' = <<>>
    /\ i' = 0
    /\ pc' = "def_loop"
    /\ UNCHANGED <<mode, keywords, batch_size, j, batch, all_mappings, calls, in_flight, result>>

\* phase 2, one iteration of the loop over the batches of pairs
DEF_Batch ==
    /\ UNCHANGED aux_vars
    /\ in_flight >= 1
    /\ in_flight' = in_flight - 1
    /\ pc = "def_loop"
    /\ i \in Range(Len(all_batches), batch_size)
    /\ LET b == Slice(all_batches, i, i + batch_size)
       IN  \E outcome \in LeetcodeBatchOutcomes :
             LET r == generate_leetcode_definitions_batch(b, outcome)
             IN  /\ batch' = b
                 /\ calls' = Append(calls, Call("batch_leetcode", i, b, outcome))
                 /\ IF ~r.raised
                    THEN /\ all_results' = ListExtend(all_results, r.value)
                         /\ i' = NextOffset(i, batch_size)
                         /\ pc' = "def_loop"
                         /\ j' = j
                    ELSE IF CaughtByExceptException(r)
                         THEN /\ pc' = "def_fallback"
                              /\ j' = 1
                              /\ UNCHANGED <<all_results, i>>
                         ELSE /\ pc' = "raised"
                              /\ UNCHANGED <<all_results, i, j>>
    /\ UNCHANGED <<mode, keywords, batch_size, all_mappings, all_batches, result>>

\* a fallback of phase 2 that asks for the keyword of the pair again
PairFallbackRequestKeyword(pair) == "single_keyword"

\* the request the per-pair fallback of phase 2 sends for a pair: the definition
\* prompt built from the keyword and the description
PairFallbackRequest(pair) == "single_leetcode"

\* phase 2, one iteration of the per-pair fallback loop
DEF_Single ==
    /\ UNCHANGED aux_vars
    /\ in_flight >= 1
    /\ in_flight' = in_flight - 1
    /\ pc = "def_fallback"
    /\ j \in 1..Len(batch)
    /\ \E outcome \in LeetcodeOutcomes :
         LET keyword == batch[j][1]
             description == batch[j][2]
             r == leetcode_single_try(keyword, description, outcome)
         IN  /\ calls' = Append(calls, Call(PairFallbackRequest(batch[j]), i + j - 1, <<batch[j]>>,
                                       outcome))
             /\ IF r.raised /\ ~CaughtByExceptException(r)
                THEN /\ pc' = "raised"
                     /\ UNCHANGED <<all_results, i, j>>
                ELSE /\ all_results' =
                          ListAppend(all_results,
                                     IF r.raised THEN ContentErrorCard(keyword, description, r)
                                     ELSE Card(r.value[1], r.value[2]))
                     /\ IF AfterItem(j, r.raised) > Len(batch)
                        THEN /\ pc' = "def_loop"
                             /\ i' = NextOffset(i, batch_size)
                             /\ j' = j
                        ELSE /\ pc' = "def_fallback"
                             /\ j' = AfterItem(j, r.raised)
                             /\ i' = i
    /\ UNCHANGED <<mode, keywords, batch_size, batch, all_mappings, all_batches, result>>

\* the loop of phase 2 is exhausted: return results
DEF_Return ==
    /\ UNCHANGED aux_vars
    /\ pc = "def_loop"
    /\ i \notin Range(Len(all_batches), batch_size)
    /\ pc' = "done"
    /\ result' = all_results
    /\ UNCHANGED <<mode, keywords, batch_size, i, j, batch, all_results, all_mappings,
                   all_batches, calls, in_flight>>

\* the run stands before a call of client.models.generate_content
AtCallSite ==
    \/ pc = "loop" /\ i \in Range(Len(keywords), batch_size)
    \/ pc = "kw_loop" /\ i \in Range(Len(keywords), batch_size)
    \/ pc = "def_loop" /\ i \in Range(Len(all_batches), batch_size)
    \/ pc \in {"fallback", "kw_fallback", "def_fallback"} /\ j \in 1..Len(batch)

\* a transport that hands back control before the reply is there
CanIssueOverlapped(n) == n <= 1

\* generate_content is a blocking method call on the only thread of the run: the
\* statement after it runs once it has returned or raised
CanIssue(n) == n = 0

\* the run enters generate_content; the action of the call site takes its return
GenerateContent ==
    /\ UNCHANGED aux_vars
    /\ AtCallSite
    /\ CanIssue(in_flight)
    /\ in_flight' = in_flight + 1
    /\ UNCHANGED <<mode, keywords, batch_size, pc, i, j, batch, all_results, all_mappings,
                   all_batches, calls, result>>

Next ==
    \/ GenerateContent
    \/ GD_Enter \/ GD_Batch \/ GD_Single \/ GD_Return
    \/ GA_Enter \/ KW_Batch \/ KW_Single \/ KW_Return
    \/ DEF_Batch \/ DEF_Single \/ DEF_Return

Spec == Init /\ [][Next]_vars

----------------------------------------------------------------------------
(* What the log of transport calls says a run of generate_definitions must  *)
(* have produced.  These definitions read the reply of a call; they do not  *)
(* use the operators of the orchestrator.                                   *)

IsDefinitions == mode = "definitions"

IsBatchCall(c) == c.op = "batch_definitions"
IsSingleCall(c) == c.op = "single_definition"

\* the transport call failed: it raised, or its response carried no text
CallFailed(c) == c.outcome.kind # "text"

FailureMessage(c) == IF c.outcome.kind = "error" THEN c.outcome.msg ELSE NoneTypeMsg

\* the decoding of the reply of a batched call that returned text
DecodedOf(c) == json_loads(Strip(StripFences(Strip(c.outcome.text))))

\* the reply of the batched call is JSON
BatchDecodes(c) == ~CallFailed(c) /\ DecodedOf(c).ok

\* the batched call and the parse of its reply went through
BatchSucceeded(c) == BatchDecodes(c) /\ DecodedOf(c).kind # "null"

IsErrorMarker(card) ==
    /\ "definition" \in DOMAIN card
    /\ card.definition # <<>>
    /\ card.definition[1] = "Error generating definition: "

\* the card an individual call must produce
SingleCard(c) ==
    IF CallFailed(c)
    THEN [keyword |-> c.items[1],
          definition |-> <<"Error generating definition: ", "Gemini API error: ">>
                           \o FailureMessage(c)]
    ELSE LET parsed == parse_keyword_definition_response(Strip(c.outcome.text), c.items[1])
         IN  [keyword |-> parsed[1], definition |-> parsed[2]]

\* the cards one call contributes
CardsOf(c) ==
    IF IsSingleCall(c) THEN <<SingleCard(c)>>
    ELSE IF BatchSucceeded(c) THEN DecodedOf(c).elems
    ELSE <<>>

\* the cards the first n calls contribute, in the order of the calls
RECURSIVE CardsUpTo(_)
CardsUpTo(n) == IF n = 0 THEN <<>> ELSE CardsUpTo(n - 1) \o CardsOf(calls[n])

\* the place in the result list of the card of the individual call calls[n]
PlaceOf(n) == Len(CardsUpTo(n - 1)) + 1

\* the offset of the batch of the item at 0-based index m, and the size of that batch
BatchOffsetOf(m) == (m \div batch_size) * batch_size
BatchLenAt(k) == IF k + batch_size > Len(keywords) THEN Len(keywords) - k ELSE batch_size

----------------------------------------------------------------------------
(* C1: for every non-empty input list, generate_definitions returns as many  *)
(* cards as there are input items.                                           *)
OutputCountEqualsInputCount ==
    (IsDefinitions /\ pc = "done" /\ keywords # <<>>) => Len(result) = Len(keywords)

(* C2: when generate_definitions has returned, the batched call of every     *)
(* batch was issued, and for every batch whose batched call failed the       *)
(* individual call of every one of its items was issued, whatever failed     *)
(* before.                                                                   *)
EveryCallIssued ==
    (IsDefinitions /\ pc = "done") =>
        \A k \in Range(Len(keywords), batch_size) :
            \E n \in 1..Len(calls) :
                /\ IsBatchCall(calls[n])
                /\ calls[n].at = k
                /\ calls[n].items = Slice(keywords, k, k + batch_size)
                /\ ~BatchSucceeded(calls[n]) =>
                       \A m \in k..(k + BatchLenAt(k) - 1) :
                           \E n2 \in 1..Len(calls) :
                               /\ IsSingleCall(calls[n2])
                               /\ calls[n2].at = m
                               /\ calls[n2].items = <<keywords[m + 1]>>

\* a finished run in which an item failed before a sibling and a batch failed before
\* a later batch
EveryCallIssuedWitness ==
    /\ IsDefinitions
    /\ pc = "done"
    /\ \E n \in 1..Len(calls) :
           /\ n + 2 <= Len(calls)
           /\ IsSingleCall(calls[n]) /\ CallFailed(calls[n])
           /\ IsSingleCall(calls[n + 1])
           /\ IsBatchCall(calls[n + 2])

(* C3: no failure of a batched call (transport error, reply without text,    *)
(* undecodable reply, reply without a length) makes generate_definitions     *)
(* raise: the batch goes to per-item processing.                             *)
BatchFailureAbsorbed ==
    IsDefinitions =>
        /\ pc \in {"start", "loop", "fallback", "done"}
        /\ \A n \in 1..Len(calls) :
               (IsBatchCall(calls[n]) /\ ~BatchSucceeded(calls[n])) =>
                   IF n = Len(calls)
                   THEN pc = "fallback" /\ j = 1 /\ batch = calls[n].items
                   ELSE IsSingleCall(calls[n + 1]) /\ calls[n + 1].at = calls[n].at

\* a finished run with a batched call that raised and one whose reply was cut short
BatchFailureAbsorbedWitness ==
    /\ IsDefinitions
    /\ pc = "done"
    /\ \E n1, n2 \in 1..Len(calls) :
           /\ IsBatchCall(calls[n1]) /\ calls[n1].outcome.kind = "error"
           /\ IsBatchCall(calls[n2]) /\ ~CallFailed(calls[n2]) /\ ~BatchDecodes(calls[n2])

(* C4: a batch whose batched call failed contributes one card per item and   *)
(* nothing else: the card of an item is an error marker exactly when its     *)
(* individual call failed, and otherwise is the card parsed from its         *)
(* individual reply.                                                         *)
FallbackOneCardPerItem ==
    IsDefinitions =>
        /\ Len(all_results) = Len(CardsUpTo(Len(calls)))
        /\ \A n \in 1..Len(calls) :
               (IsBatchCall(calls[n]) /\ ~BatchSucceeded(calls[n])) =>
                   /\ \A jj \in 1..Len(calls[n].items) :
                          n + jj <= Len(calls) =>
                              LET c == calls[n + jj]
                                  card == all_results[PlaceOf(n + jj)]
                              IN  /\ IsSingleCall(c)
                                  /\ c.items = <<calls[n].items[jj]>>
                                  /\ PlaceOf(n + jj) = PlaceOf(n) + jj - 1
                                  /\ IsErrorMarker(card) <=> CallFailed(c)
                                  /\ ~CallFailed(c) => card = SingleCard(c)
                   /\ n + Len(calls[n].items) < Len(calls) =>
                          IsBatchCall(calls[n + Len(calls[n].items) + 1])

\* a finished run with a failed batch one of whose items failed and another did not
FallbackOneCardPerItemWitness ==
    /\ IsDefinitions
    /\ pc = "done"
    /\ \E n \in 1..Len(calls) :
           /\ n + 2 <= Len(calls)
           /\ IsBatchCall(calls[n]) /\ CallFailed(calls[n])
           /\ IsSingleCall(calls[n + 1]) /\ CallFailed(calls[n + 1])
           /\ IsSingleCall(calls[n + 2]) /\ ~CallFailed(calls[n + 2])
           /\ IsErrorMarker(result[PlaceOf(n + 1)])
           /\ ~IsErrorMarker(result[PlaceOf(n + 2)])

(* C5: in the per-item fallback an item whose individual call raised gets    *)
(* the card whose keyword is the input item and whose definition is          *)
(* "Error generating definition: " followed by the message of the exception, *)
(* and the next item of the batch is processed.                              *)
ItemFailureRecorded ==
    IsDefinitions =>
        \A n \in 1..Len(calls) :
            (IsSingleCall(calls[n]) /\ CallFailed(calls[n])) =>
                LET m == calls[n].at
                    k == BatchOffsetOf(m)
                    last == m = k + BatchLenAt(k) - 1
                IN  /\ PlaceOf(n) <= Len(all_results)
                    /\ all_results[PlaceOf(n)] =
                           [keyword |-> keywords[m + 1],
                            definition |-> <<"Error generating definition: ",
                                             "Gemini API error: ">> \o FailureMessage(calls[n])]
                    /\ pc # "raised"
                    /\ ~last =>
                           IF n = Len(calls)
                           THEN pc = "fallback" /\ batch[j] = keywords[m + 2]
                           ELSE /\ IsSingleCall(calls[n + 1])
                                /\ calls[n + 1].at = m + 1

\* a finished run in which an item that is not the last of its batch failed
ItemFailureRecordedWitness ==
    /\ IsDefinitions
    /\ pc = "done"
    /\ \E n \in 1..Len(calls) :
           /\ n < Len(calls)
           /\ IsSingleCall(calls[n]) /\ calls[n].outcome.kind = "error"
           /\ IsSingleCall(calls[n + 1])
           /\ result[PlaceOf(n)].keyword = calls[n].items[1]

(* C6: the result list is the concatenation, in the order of the calls, of   *)
(* what each call contributed; the calls go through the batches in input     *)
(* order and, inside a batch that fell back, through its items in input      *)
(* order.                                                                    *)
ResultsInInputOrder ==
    IsDefinitions =>
        /\ all_results = CardsUpTo(Len(calls))
        /\ \A n \in 1..Len(calls) :
               IF IsBatchCall(calls[n])
               THEN /\ calls[n].at = BatchOffsetOf(calls[n].at)
                    /\ n > 1 => calls[n].at = BatchOffsetOf(calls[n - 1].at) + batch_size
                    /\ n = 1 => calls[n].at = 0
               ELSE /\ n > 1
                    /\ calls[n].items = <<keywords[calls[n].at + 1]>>
                    /\ IF IsBatchCall(calls[n - 1])
                       THEN calls[n].at = calls[n - 1].at
                       ELSE /\ calls[n].at = calls[n - 1].at + 1
                            /\ BatchOffsetOf(calls[n].at) = BatchOffsetOf(calls[n - 1].at)

\* a finished run of two batches, the first fallen back with two different cards
ResultsInInputOrderWitness ==
    /\ IsDefinitions
    /\ pc = "done"
    /\ Len(calls) >= 4
    /\ IsBatchCall(calls[1]) /\ IsSingleCall(calls[2]) /\ IsSingleCall(calls[3])
    /\ IsBatchCall(calls[4]) /\ BatchSucceeded(calls[4])
    /\ Len(result) >= 3
    /\ result[1] # result[2]
    /\ result[2] # result[3]

(* C7: called with an empty list, generate_definitions and                   *)
(* generate_algorithm_problems return the empty list at once, without any    *)
(* transport call.                                                           *)
EmptyInputReturnsEmpty ==
    keywords = <<>> =>
        /\ pc \in {"start", "done"}
        /\ calls = <<>>
        /\ pc = "done" => result = <<>>

\* a run on the empty list that has returned
EmptyInputReturnsEmptyWitness ==
    /\ keywords = <<>>
    /\ pc = "done"
    /\ mode = "algorithm_problems"

----------------------------------------------------------------------------
(* The chunking alone: the same runs against a backend whose every batched  *)
(* reply is the empty array, on longer inputs.                              *)

MaxChunkItems == 7
MaxChunkBatchSize == 3

EmptyArrayReply == {Text(<<"[", "]">>)}

InitChunk ==
    /\ mode \in {"definitions", "algorithm_problems"}
    /\ keywords \in InputLists(MaxChunkItems)
    /\ batch_size \in 1..MaxChunkBatchSize
    /\ pc = "start"
    /\ i = 0
    /\ j = 0
    /\ batch = <<>>
    /\ all_results = <<>>
    /\ all_mappings = <<>>
    /\ all_batches = <<>>
    /\ calls = <<>>
    /\ in_flight = 0
    /\ result = <<>>
    /\ ParserNotCalled
    /\ MainNotRun
    /\ DecodersNotCalled

GD_ChunkBatch == GD_BatchWith(EmptyArrayReply)
KW_ChunkBatch == KW_BatchWith(EmptyArrayReply)

NextChunk ==
    \/ GenerateContent
    \/ GD_Enter \/ GD_ChunkBatch \/ GD_Return
    \/ GA_Enter \/ KW_ChunkBatch \/ KW_Return \/ DEF_Return

SpecChunk == InitChunk /\ [][NextChunk]_vars

\* the least q with q * b >= n
Ceil(n, b) == CHOOSE q \in 0..n : q * b >= n /\ (q = 0 \/ (q - 1) * b < n)

\* the batches the loop formed: the items of the batched calls, in order
BatchesFormed == [n \in 1..Len(calls) |-> calls[n].items]

RECURSIVE Concat(_, _)
Concat(lists, n) == IF n = 0 THEN <<>> ELSE Concat(lists, n - 1) \o lists[n]

\* the loop over the batches is over
ChunkingOver ==
    \/ IsDefinitions /\ pc = "done"
    \/ mode = "algorithm_problems" /\ pc \in {"def_loop", "done"}

(* C8: for n items and batch size b the loop forms ceil(n/b) batches, each   *)
(* but the last of b items, the last of 1 to b items, and their              *)
(* concatenation in order is the input list.                                 *)
ChunkingPartitionsInput ==
    ChunkingOver =>
        /\ Len(BatchesFormed) = Ceil(Len(keywords), batch_size)
        /\ \A n \in 1..Len(BatchesFormed) :
               IF n < Len(BatchesFormed)
               THEN Len(BatchesFormed[n]) = batch_size
               ELSE Len(BatchesFormed[n]) \in 1..batch_size
        /\ Concat(BatchesFormed, Len(BatchesFormed)) = keywords

\* seven items in batches of three: sizes 3, 3, 1
ChunkingPartitionsInputWitness ==
    /\ IsDefinitions
    /\ pc = "done"
    /\ Len(keywords) = 7
    /\ batch_size = 3
    /\ [n \in 1..Len(BatchesFormed) |-> Len(BatchesFormed[n])] = <<3, 3, 1>>

----------------------------------------------------------------------------
(* C9 as stated: whenever the batched reply decodes, the batch contributes   *)
(* exactly the decoded records and no per-item call is issued for it.        *)
DecodedReplyPassedThrough ==
    IsDefinitions =>
        \A n \in 1..Len(calls) :
            (IsBatchCall(calls[n]) /\ BatchDecodes(calls[n])) =>
                /\ n = Len(calls) => pc # "fallback"
                /\ n < Len(calls) => IsBatchCall(calls[n + 1])
                /\ SubSeq(all_results, PlaceOf(n),
                          PlaceOf(n) + Len(DecodedOf(calls[n]).elems) - 1)
                       = DecodedOf(calls[n]).elems

(* C9 amended: whenever the batched reply decodes to a JSON array, the batch *)
(* contributes exactly the elements of the array, in their order, and no     *)
(* per-item call is issued for it, also when their number differs from the   *)
(* number of items of the batch.                                             *)
ArrayReplyPassedThrough ==
    IsDefinitions =>
        \A n \in 1..Len(calls) :
            (IsBatchCall(calls[n]) /\ BatchDecodes(calls[n])
                /\ DecodedOf(calls[n]).kind = "array") =>
                /\ n = Len(calls) => pc # "fallback"
                /\ n < Len(calls) => IsBatchCall(calls[n + 1])
                /\ PlaceOf(n) + Len(DecodedOf(calls[n]).elems) - 1 <= Len(all_results)
                /\ SubSeq(all_results, PlaceOf(n),
                          PlaceOf(n) + Len(DecodedOf(calls[n]).elems) - 1)
                       = DecodedOf(calls[n]).elems

\* a finished run with an array reply of more records than the batch has items
ArrayReplyPassedThroughWitness ==
    /\ IsDefinitions
    /\ pc = "done"
    /\ \E n \in 1..Len(calls) :
           /\ IsBatchCall(calls[n])
           /\ BatchDecodes(calls[n])
           /\ DecodedOf(calls[n]).kind = "array"
           /\ Len(DecodedOf(calls[n]).elems) > Len(calls[n].items)
           /\ Len(result) > Len(keywords)

(* C10: generate_definitions never retries: one batched call per batch, an   *)
(* individual call for an item only after the batched call of its batch      *)
(* failed and then once, so at most ceil(n/b) + n calls.                     *)
NoRetry ==
    IsDefinitions =>
        /\ \A n1, n2 \in 1..Len(calls) :
               (calls[n1].op = calls[n2].op /\ calls[n1].at = calls[n2].at) => n1 = n2
        /\ \A n \in 1..Len(calls) :
               IF IsBatchCall(calls[n])
               THEN calls[n].at \in Range(Len(keywords), batch_size)
               ELSE /\ IsSingleCall(calls[n])
                    /\ calls[n].at \in 0..(Len(keywords) - 1)
                    /\ \E n0 \in 1..(n - 1) :
                           /\ IsBatchCall(calls[n0])
                           /\ calls[n0].at = BatchOffsetOf(calls[n].at)
                           /\ ~BatchSucceeded(calls[n0])
        /\ Len(calls) <= Ceil(Len(keywords), batch_size) + Len(keywords)

\* a finished run in which every batch fell back: ceil(n/b) + n calls
NoRetryWitness ==
    /\ IsDefinitions
    /\ pc = "done"
    /\ Len(keywords) >= 2
    /\ Len(calls) = Ceil(Len(keywords), batch_size) + Len(keywords)

----------------------------------------------------------------------------
(* The calls of the loop that builds the result list: every call of         *)
(* generate_definitions, the calls of phase 2 of                            *)
(* generate_algorithm_problems.                                             *)

IsResultCall(c) ==
    c.op \in {"batch_definitions", "single_definition", "batch_leetcode", "single_leetcode"}

IsBatchedCall(c) == c.op \in {"batch_definitions", "batch_leetcode"}

ResultCalls == SelectSeq(calls, IsResultCall)

\* the list the loop goes through: the keywords, the (keyword, description) pairs
ResultItems == IF IsDefinitions THEN keywords ELSE all_batches

\* the number of cards one returned call adds to the result list
ContributionLen(c) ==
    IF ~IsBatchedCall(c) THEN 1
    ELSE IF CallFailed(c) THEN 0
    ELSE LET decoded == DecodedOf(c)
         IN  IF decoded.ok /\ decoded.kind # "null" THEN Len(decoded.elems) ELSE 0

RECURSIVE ContributionsUpTo(_, _)
ContributionsUpTo(rc, n) ==
    IF n = 0 THEN 0 ELSE ContributionsUpTo(rc, n - 1) + ContributionLen(rc[n])

\* a batched call of the result loop has been entered and has not returned
BatchedCallInFlight == in_flight >= 1 /\ pc \in {"loop", "def_loop"}

(* C11: at most one transport call is in flight; the calls of the result     *)
(* loop come in the order batch 1, the items of batch 1 in order if it fell  *)
(* back, batch 2, ...; and when the batched call of a batch is entered every  *)
(* card of the batch before it is in the result list.                        *)
CallsStrictlySequential ==
    LET rc == ResultCalls
        items == ResultItems
    IN  /\ in_flight <= 1
        /\ \A n \in 1..Len(rc) :
               IF IsBatchedCall(rc[n])
               THEN /\ rc[n].items = Slice(items, rc[n].at, rc[n].at + batch_size)
                    /\ n = 1 => rc[n].at = 0
                    /\ n > 1 =>
                          IF IsBatchedCall(rc[n - 1])
                          THEN /\ BatchSucceeded(rc[n - 1])
                               /\ rc[n].at = rc[n - 1].at + batch_size
                          ELSE /\ rc[n].at = rc[n - 1].at + 1
                               /\ rc[n].at % batch_size = 0
               ELSE /\ n > 1
                    /\ rc[n].items = <<items[rc[n].at + 1]>>
                    /\ IF IsBatchedCall(rc[n - 1])
                       THEN /\ ~BatchSucceeded(rc[n - 1])
                            /\ rc[n].at = rc[n - 1].at
                       ELSE /\ rc[n].at = rc[n - 1].at + 1
                            /\ rc[n].at % batch_size # 0
        /\ BatchedCallInFlight =>
               /\ Len(all_results) = ContributionsUpTo(rc, Len(rc))
               /\ IF rc = <<>>
                  THEN i = 0
                  ELSE LET last == rc[Len(rc)]
                       IN  IF IsBatchedCall(last)
                           THEN BatchSucceeded(last) /\ last.at + batch_size = i
                           ELSE last.at + 1 = i

\* phase 2: the batched call of the second batch is in flight after the first batch
\* fell back, and the card of the first batch is in the result list
CallsStrictlySequentialWitness ==
    /\ mode = "algorithm_problems"
    /\ pc = "def_loop"
    /\ in_flight = 1
    /\ i > 0
    /\ Len(ResultCalls) = 2
    /\ IsBatchedCall(ResultCalls[1])
    /\ ~IsBatchedCall(ResultCalls[2])
    /\ Len(all_results) = 1

----------------------------------------------------------------------------
(* generate_algorithm_problems: the mapping phase 1 hands to phase 2 *)

IsAlgorithmProblems == mode = "algorithm_problems"

\* _generate_keywords_batch has returned
PhaseOneOver == IsAlgorithmProblems /\ keywords # <<>> /\ pc \in {"def_loop", "def_fallback", "done"}

IsKeywordBatchCall(c) == c.op = "batch_keywords"
IsKeywordSingleCall(c) == c.op = "single_keyword"

\* the value the mapping holds for key k
DictGet(d, k) == d[CHOOSE n \in 1..Len(d) : d[n][1] = k][2]

\* both the batched call of the batch of the description at 0-based index m and the
\* individual keyword call of that description failed
BothKeywordCallsFailed(m) ==
    \E n1, n2 \in 1..Len(calls) :
        /\ IsKeywordBatchCall(calls[n1]) /\ calls[n1].at = BatchOffsetOf(m)
        /\ CallFailed(calls[n1])
        /\ IsKeywordSingleCall(calls[n2]) /\ calls[n2].at = m
        /\ CallFailed(calls[n2])

(* C12: after phase 1 every input description is a key of the mapping, and a *)
(* description whose batched call and individual keyword call both failed    *)
(* maps to itself.                                                           *)
EveryDescriptionMapped ==
    PhaseOneOver =>
        \A m \in 0..(Len(keywords) - 1) :
            /\ DictHas(all_mappings, keywords[m + 1])
            /\ (BothKeywordCallsFailed(m)
                  /\ \A m2 \in (m + 1)..(Len(keywords) - 1) : keywords[m2 + 1] # keywords[m + 1])
                  => DictGet(all_mappings, keywords[m + 1]) = keywords[m + 1]

(* C13: every key of the mapping built by phase 1 is one of the input        *)
(* descriptions.                                                             *)
MappingKeysAreInputs ==
    IsAlgorithmProblems =>
        \A n \in 1..Len(all_mappings) :
            \E m \in 1..Len(keywords) : keywords[m] = all_mappings[n][1]

(* C14: generate_algorithm_problems returns as many cards as the mapping of  *)
(* phase 1 has entries.                                                      *)
CardCountEqualsMappingSize ==
    (IsAlgorithmProblems /\ pc = "done") => Len(result) = Len(all_mappings)

----------------------------------------------------------------------------
(* What the log of the keyword calls says the mapping must hold: the         *)
(* (description, keyword) pairs each returned call stored, in order.         *)

IsKeywordCall(c) == IsKeywordBatchCall(c) \/ IsKeywordSingleCall(c)

HasBothFields(el) == Get(el, "description") # <<>> /\ Get(el, "keyword") # <<>>

\* the records of a decoded reply that come before its first element that is no dict
RecordsBeforeFirstNonDict(elems) ==
    LET bad == {k \in 1..Len(elems) : ~IsDict(elems[k])}
    IN  IF bad = {} THEN elems ELSE SubSeq(elems, 1, SetMin(bad) - 1)

\* the pairs one returned keyword call stored
StoredBy(c) ==
    IF IsKeywordSingleCall(c)
    THEN <<<<c.items[1],
             IF CallFailed(c) THEN c.items[1] ELSE StripQuotes(Strip(c.outcome.text))>>>>
    ELSE IF IsKeywordBatchCall(c) /\ ~CallFailed(c)
         THEN LET decoded == DecodedOf(c)
              IN  IF decoded.ok /\ decoded.kind # "null"
                  THEN LET recs == SelectSeq(RecordsBeforeFirstNonDict(decoded.elems),
                                             HasBothFields)
                       IN  [k \in 1..Len(recs) |-> <<recs[k].description, recs[k].keyword>>]
                  ELSE <<>>
         ELSE <<>>

RECURSIVE StoreEvents(_)
StoreEvents(n) == IF n = 0 THEN <<>> ELSE StoreEvents(n - 1) \o StoredBy(calls[n])

\* the elements of a list in the order of their first occurrence
RECURSIVE FirstOccurrences(_)
FirstOccurrences(list) ==
    IF list = <<>>
    THEN <<>>
    ELSE LET r == FirstOccurrences(SubSeq(list, 1, Len(list) - 1))
             x == list[Len(list)]
         IN  IF \E k \in 1..Len(r) : r[k] = x THEN r ELSE Append(r, x)

KeysOf(pairs) == [k \in 1..Len(pairs) |-> pairs[k][1]]

\* the value of the last pair stored under a key
LastStored(events, key) == events[SetMax({k \in 1..Len(events) : events[k][1] = key})][2]

HasDuplicates(list) == \E m1, m2 \in 1..Len(list) : m1 # m2 /\ list[m1] = list[m2]

----------------------------------------------------------------------------
(* Runs against a backend that answers every batched call with one          *)
(* well-formed record per item, in the order of the items.                   *)

IsLeetcodeBatchCall(c) == c.op = "batch_leetcode"
IsLeetcodeSingleCall(c) == c.op = "single_leetcode"

ArrayOfOnePerItem(c) ==
    /\ BatchSucceeded(c)
    /\ DecodedOf(c).kind = "array"
    /\ Len(DecodedOf(c).elems) = Len(c.items)
    /\ \A k \in 1..Len(c.items) : IsDict(DecodedOf(c).elems[k])

\* the keyword reply names the descriptions of the batch, each with a keyword
WellFormedKeywordReply(c) ==
    /\ IsKeywordBatchCall(c)
    /\ ArrayOfOnePerItem(c)
    /\ \A k \in 1..Len(c.items) :
           /\ Get(DecodedOf(c).elems[k], "description") = c.items[k]
           /\ Get(DecodedOf(c).elems[k], "keyword") # <<>>

\* the definition reply echoes the keyword of each pair of the batch
WellFormedDefinitionReply(c) ==
    /\ IsLeetcodeBatchCall(c)
    /\ ArrayOfOnePerItem(c)
    /\ \A k \in 1..Len(c.items) :
           /\ Get(DecodedOf(c).elems[k], "keyword") = c.items[k][1]
           /\ "definition" \in DOMAIN DecodedOf(c).elems[k]

EveryCallWellFormed ==
    \A n \in 1..Len(calls) :
        WellFormedKeywordReply(calls[n]) \/ WellFormedDefinitionReply(calls[n])

\* the keyword the keyword backend returned for the description at 0-based index m
KeywordReturnedFor(m) ==
    LET n == CHOOSE n \in 1..Len(calls) :
                 IsKeywordBatchCall(calls[n]) /\ calls[n].at = BatchOffsetOf(m)
    IN  DecodedOf(calls[n]).elems[m - calls[n].at + 1].keyword

(* C16: when the descriptions are distinct and every backend call succeeds   *)
(* with one well-formed record per item in order, the definition backend     *)
(* echoing the keyword, the cards returned are those of the keywords of the  *)
(* input descriptions, in the order of the descriptions.                     *)
CardsInDescriptionOrder ==
    (IsAlgorithmProblems /\ pc = "done" /\ ~HasDuplicates(keywords) /\ EveryCallWellFormed) =>
        /\ Len(result) = Len(keywords)
        /\ \A m \in 0..(Len(keywords) - 1) :
               /\ "keyword" \in DOMAIN result[m + 1]
               /\ "definition" \in DOMAIN result[m + 1]
               /\ result[m + 1].keyword = KeywordReturnedFor(m)

\* a finished run on two descriptions with two different keywords
CardsInDescriptionOrderWitness ==
    /\ IsAlgorithmProblems
    /\ pc = "done"
    /\ keywords = <<(<<"x">>), (<<"y">>)>>
    /\ EveryCallWellFormed
    /\ Len(result) = 2
    /\ result[1].keyword = KeywordReturnedFor(0)
    /\ result[2].keyword = KeywordReturnedFor(1)
    /\ result[1].keyword # result[2].keyword

----------------------------------------------------------------------------
\* the place in the result list of the card of the individual call rc[n]
ResultPlaceIn(rc, n) == ContributionsUpTo(rc, n - 1) + 1

ResultPlaceOf(n) == ResultPlaceIn(ResultCalls, n)

(* C17: in the per-pair fallback of phase 2 a pair whose individual call     *)
(* raised gets the card whose keyword is the keyword phase 1 stored for the  *)
(* description and whose definition is "Error generating content: " followed *)
(* by the message of the error, and the next pair of the batch is processed. *)
PairFailureRecorded ==
    IsAlgorithmProblems =>
        LET rc == ResultCalls
        IN  /\ pc # "raised"
            /\ \A n \in 1..Len(rc) :
                   (IsLeetcodeSingleCall(rc[n]) /\ CallFailed(rc[n])) =>
                       LET c == rc[n]
                           m == c.at
                           last == m + 1 = Len(all_batches) \/ (m + 1) % batch_size = 0
                           place == ResultPlaceIn(rc, n)
                       IN  /\ place <= Len(all_results)
                           /\ all_results[place] =
                                  [keyword |-> all_mappings[m + 1][2],
                                   definition |-> <<"Error generating content: ">>
                                                    \o FailureMessage(c)]
                           /\ ~last =>
                                  IF n = Len(rc)
                                  THEN pc = "def_fallback" /\ batch[j] = all_batches[m + 2]
                                  ELSE /\ IsLeetcodeSingleCall(rc[n + 1])
                                       /\ rc[n + 1].at = m + 1
                                       /\ rc[n + 1].items = <<all_batches[m + 2]>>

\* a finished run in which the first pair of a batch of two failed, its keyword being
\* another string than its description, and the second pair was processed
PairFailureRecordedWitness ==
    /\ IsAlgorithmProblems
    /\ pc = "done"
    /\ \E n \in 1..Len(ResultCalls) :
           /\ n < Len(ResultCalls)
           /\ IsLeetcodeSingleCall(ResultCalls[n]) /\ CallFailed(ResultCalls[n])
           /\ IsLeetcodeSingleCall(ResultCalls[n + 1])
           /\ ResultCalls[n].items[1][1] # ResultCalls[n].items[1][2]
           /\ result[ResultPlaceOf(n)].keyword = ResultCalls[n].items[1][1]

----------------------------------------------------------------------------
(* _parse_keyword_definition_response called alone, on every text of a few  *)
(* tokens and on None.                                                      *)

MaxTextLen == 5

ParseTokens == {"Keyword:", "Definition:", "\n", " ", "a"}

Texts == UNION {[1..n -> ParseTokens] : n \in 0..MaxTextLen}

\* a Python value handed to the parser: a str, or None
StrValue(t) == [str |-> t]
NoneValue == [none |-> TRUE]
IsStrValue(v) == "str" \in DOMAIN v

ParseArguments == {StrValue(t) : t \in Texts} \cup {NoneValue}

FallbackKeywords == {<<"k">>}

\* the body of the try block: None has no split
parse_try(arg, fallback_keyword) ==
    IF IsStrValue(arg)
    THEN Ret(parse_keyword_definition_response(arg.str, fallback_keyword))
    ELSE Raise("AttributeError", <<"'NoneType' object has no attribute 'split'">>)

\* a try block without its except clause
ParseCatchesNothing(exc) == FALSE

\* the except Exception clause of the parser
ParseCatches(exc) == CaughtByExceptException(exc)

\* the whole function, on any value: the except clause gives back the two arguments
parse_keyword_definition_response_any(arg, fallback_keyword) ==
    LET r == parse_try(arg, fallback_keyword)
    IN  IF r.raised /\ ParseCatches(r)
        THEN Ret(<<StrValue(fallback_keyword), arg>>)
        ELSE IF r.raised THEN r
        ELSE Ret(<<StrValue(r.value[1]), StrValue(r.value[2])>>)

InitParse ==
    /\ mode = "parse"
    /\ keywords = <<>>
    /\ batch_size = 1
    /\ pc = "start"
    /\ i = 0
    /\ j = 0
    /\ batch = <<>>
    /\ all_results = <<>>
    /\ all_mappings = <<>>
    /\ all_batches = <<>>
    /\ calls = <<>>
    /\ in_flight = 0
    /\ result = <<>>
    /\ arg_response_text \in ParseArguments
    /\ arg_fallback_keyword \in FallbackKeywords
    /\ parse_result = <<>>
    /\ MainNotRun
    /\ DecodersNotCalled

\* one call of the parser
Parse ==
    /\ mode = "parse"
    /\ pc = "start"
    /\ parse_result' = parse_keyword_definition_response_any(arg_response_text,
                                                             arg_fallback_keyword)
    /\ pc' = "done"
    /\ UNCHANGED <<mode, keywords, batch_size, i, j, batch, all_results, all_mappings,
                   all_batches, calls, in_flight, result, arg_response_text,
                   arg_fallback_keyword, main_vars, decode_vars>>

NextParse == Parse

SpecParse == InitParse /\ [][NextParse]_vars

\* the parser has returned or raised
ParseOver == mode = "parse" /\ pc = "done"

\* the token at k is the first of its line
AtLineStart(t, k) == k = 1 \/ t[k - 1] = "\n"

\* only blanks stand between the start of its line and the token at k
AtLineStartAfterBlanks(t, k) ==
    \E s \in 1..k : AtLineStart(t, s) /\ \A m \in s..(k - 1) : t[m] = " "

IsMarker(tok) == tok \in {"Keyword:", "Definition:"}

HasBothMarkers(t) ==
    /\ \E k \in 1..Len(t) : t[k] = "Keyword:"
    /\ \E k \in 1..Len(t) : t[k] = "Definition:"

\* the parser gave back a pair
ReturnedPair == ~parse_result.raised /\ Len(parse_result.value) = 2

ReturnedArguments ==
    parse_result.value = <<StrValue(arg_fallback_keyword), arg_response_text>>

(* C18 as stated: the parser never raises and returns a pair, and on a text  *)
(* with no line that starts with a marker and without both markers the pair   *)
(* is the fallback keyword and the text unchanged.                           *)
ParseFallsBackWithoutMarkerLine ==
    ParseOver =>
        /\ ReturnedPair
        /\ (IsStrValue(arg_response_text)
              /\ ~HasBothMarkers(arg_response_text.str)
              /\ ~\E k \in 1..Len(arg_response_text.str) :
                     /\ IsMarker(arg_response_text.str[k])
                     /\ AtLineStart(arg_response_text.str, k))
              => ReturnedArguments

(* C18 amended: the parser never raises and returns a pair, and on a text    *)
(* with no line that starts with a marker once its leading blanks are        *)
(* stripped, and without both markers, the pair is the fallback keyword and  *)
(* the text unchanged.                                                       *)
ParseFallsBackWithoutStrippedMarkerLine ==
    ParseOver =>
        /\ ReturnedPair
        /\ (IsStrValue(arg_response_text)
              /\ ~HasBothMarkers(arg_response_text.str)
              /\ ~\E k \in 1..Len(arg_response_text.str) :
                     /\ IsMarker(arg_response_text.str[k])
                     /\ AtLineStartAfterBlanks(arg_response_text.str, k))
              => ReturnedArguments

\* a text with a marker in the middle of a line, given back unchanged
ParseFallsBackWithoutStrippedMarkerLineWitness ==
    /\ ParseOver
    /\ arg_response_text = StrValue(<<"a", " ", "Definition:", " ", "a">>)
    /\ ReturnedPair
    /\ ReturnedArguments

----------------------------------------------------------------------------
(* The records of the list a run returns *)

\* the run has returned its list
RunOver == mode \in {"definitions", "algorithm_problems"} /\ pc = "done"

CardFields == {"keyword", "definition"}

IsCardRecord(rec) == DOMAIN rec = CardFields

(* C19: no keyword and no definition of a returned card holds a line break.  *)
NoLineBreakInCards ==
    RunOver =>
        \A n \in 1..Len(result) :
            \A field \in DOMAIN result[n] \cap CardFields :
                ~Contains(result[n][field], "\n")

\* the reply of a batched call decodes to an array of records with both fields
IsArrayOfCards(c) ==
    /\ BatchDecodes(c)
    /\ DecodedOf(c).kind = "array"
    /\ \A k \in 1..Len(DecodedOf(c).elems) : IsCardRecord(DecodedOf(c).elems[k])

(* C20: every record of the returned list has a keyword and a definition: a  *)
(* batched reply that decodes to anything but an array of such records makes *)
(* the batch fall back to per-item processing.                               *)
EveryRecordIsCard ==
    /\ RunOver => \A n \in 1..Len(result) : IsCardRecord(result[n])
    /\ \A n \in 1..Len(ResultCalls) :
           (IsBatchedCall(ResultCalls[n]) /\ BatchDecodes(ResultCalls[n])
               /\ ~IsArrayOfCards(ResultCalls[n]) /\ n < Len(ResultCalls))
               => ~IsBatchedCall(ResultCalls[n + 1])

----------------------------------------------------------------------------
(* The sink: csv.writer with its default dialect, and write_quizlet_csv.    *)
(* The file is the sequence of its characters.                              *)

\* the characters that make the default dialect (QUOTE_MINIMAL) quote a field: the
\* delimiter, the quote character and the characters of a line break
CsvSpecials == {",", "\"", "\r", "\n"}

NeedsQuotes(field) == \E n \in 1..Len(field) : field[n] \in CsvSpecials

\* doublequote: every quote character of the field is written twice
RECURSIVE DoubleQuotes(_)
DoubleQuotes(field) ==
    IF field = <<>> THEN <<>>
    ELSE (IF Head(field) = "\"" THEN <<"\"", "\"">> ELSE <<Head(field)>>)
         \o DoubleQuotes(Tail(field))

\* a writer that never quotes: QUOTE_NONE without an escape character
CsvFieldUnquoted(field) == field

\* one field as the writer emits it
CsvField(field) ==
    IF NeedsQuotes(field) THEN <<"\"">> \o DoubleQuotes(field) \o <<"\"">> ELSE field

\* the line terminator of the default dialect; the file is opened with newline=''
LineTerminator == <<"\r", "\n">>

\* writer.writerow([a, b])
writerow(a, b) == CsvField(a) \o <<",">> \o CsvField(b) \o LineTerminator

\* pair['keyword'] and pair['definition'] are both there: pair is a dict with the
\* two keys (a str or None in the list raises TypeError, a dict without one of the
\* keys raises KeyError)
HasCardKeys(pair) == {"keyword", "definition"} \subseteq DOMAIN pair

\* the loop of write_quizlet_csv: the rows written before the first pair that raises
RECURSIVE WriteRows(_)
WriteRows(pairs) ==
    IF pairs = <<>> THEN [text |-> <<>>, raised |-> FALSE]
    ELSE IF ~HasCardKeys(Head(pairs)) THEN [text |-> <<>>, raised |-> TRUE]
    ELSE LET rest == WriteRows(Tail(pairs))
         IN  [text |-> writerow(Head(pairs).keyword, Head(pairs).definition) \o rest.text,
              raised |-> rest.raised]

\* write_quizlet_csv: open(..., 'w') creates or truncates the file, then the rows; any
\* exception comes out as ValueError, the file staying as far as it was written
write_quizlet_csv(pairs) ==
    LET w == WriteRows(pairs)
    IN  [file |-> [exists |-> TRUE, text |-> w.text],
         outcome |-> IF w.raised THEN Raise("ValueError", <<"Error writing CSV file: ">>)
                     ELSE Ret(<<>>)]

----------------------------------------------------------------------------
(* main(): the command-line run around the handler *)

\* the choices of --prompt-type, and PromptTemplates.get_available_types()
PromptTypeChoices == {"general", "algorithm", "leetcode"}

get_available_types == PromptTypeChoices

\* the values given to --prompt-type
PromptTypes == PromptTypeChoices \cup {"essay"}

\* the values given to --batch-size (type=int), <<>> when the flag is absent
FlagBatchSizes == {<<>>, <<0>>, <<1>>, <<0 - 1>>}

\* the values of GEMINI_API_KEY: unset, empty, set
ApiKeys == {NoneValue, StrValue(<<>>), StrValue(<<"k">>)}

\* the values of GEMINI_BATCH_SIZE: unset, or a text
BatchSizeTexts == {<<"0">>, <<"2">>, <<"-", "1">>, <<"x">>}

BatchSizeSettings == {NoneValue} \cup {StrValue(t) : t \in BatchSizeTexts}

\* the column of the file named by --csv: no such file, or the values of the column
NoSuchFile == [missing |-> TRUE]

Digits == {"0", "1", "2", "3", "4", "5", "6", "7", "8", "9"}

DigitValue(d) ==
    CASE d = "0" -> 0 [] d = "1" -> 1 [] d = "2" -> 2 [] d = "3" -> 3 [] d = "4" -> 4
      [] d = "5" -> 5 [] d = "6" -> 6 [] d = "7" -> 7 [] d = "8" -> 8 [] d = "9" -> 9

RECURSIVE DigitsValue(_)
DigitsValue(t) ==
    IF t = <<>> THEN 0 ELSE 10 * DigitsValue(SubSeq(t, 1, Len(t) - 1)) + DigitValue(t[Len(t)])

IsDigits(t) == t # <<>> /\ \A n \in 1..Len(t) : t[n] \in Digits

\* int(text) of a text made of a sign and decimal digits
int(text) ==
    IF IsDigits(text) THEN Ret(DigitsValue(text))
    ELSE IF text # <<>> /\ Head(text) = "-" /\ IsDigits(Tail(text))
         THEN Ret(0 - DigitsValue(Tail(text)))
         ELSE Raise("ValueError", <<"invalid literal for int() with base 10">>)

\* os.getenv(name, default)
getenv(value, default) == IF IsStrValue(value) THEN value.str ELSE default

\* the default of GEMINI_BATCH_SIZE
DefaultBatchSize == <<"5">>

\* Settings.__init__: int(os.getenv('GEMINI_BATCH_SIZE', '5'))
gemini_batch_size(e) == int(getenv(e.GEMINI_BATCH_SIZE, DefaultBatchSize))

\* not self.gemini_api_key: the variable is unset or empty
HasApiKey(e) == IsStrValue(e.GEMINI_API_KEY) /\ e.GEMINI_API_KEY.str # <<>>

\* a check of the settings that lets a missing key through
validate_required_settings_lenient(e) == Ret(TRUE)

validate_required_settings(e) ==
    IF HasApiKey(e) THEN Ret(TRUE)
    ELSE Raise("ValueError", <<"Missing required environment variables: ">>)

validate_prompt_type(prompt_type, available_types) ==
    IF prompt_type \in available_types THEN Ret(TRUE)
    ELSE Raise("ValueError", <<"Invalid prompt type">>)

\* x or y on ints: 0 is falsy, every other int is truthy
IntOr(x, y) == IF x # 0 THEN x ELSE y

\* args.batch_size if args.batch_size else gemini_config["batch_size"]
CliBatchSize(a, e) ==
    IF a.batch_size # <<>> /\ a.batch_size[1] # 0 THEN a.batch_size[1]
    ELSE gemini_batch_size(e).value

\* GeminiHandler.__init__: batch_size or int(os.getenv("GEMINI_BATCH_SIZE", "5"))
HandlerBatchSize(given, e) == IntOr(given, gemini_batch_size(e).value)

\* the batch size a handler built by generate_quizlet_cards works with
EffectiveBatchSize(a, e) == HandlerBatchSize(CliBatchSize(a, e), e)

\* the process exits with the given status
Exit(code) ==
    /\ main_pc' = "exited"
    /\ exit_code' = code

\* the longest column a command-line run reads
MaxMainItems == 1

InitMain ==
    /\ mode \in {"definitions", "algorithm_problems"}
    /\ args \in [prompt_type : PromptTypes, batch_size : FlagBatchSizes,
                 csv : {NoSuchFile} \cup {[column |-> l] : l \in InputLists(MaxMainItems)}]
    /\ env \in [GEMINI_API_KEY : ApiKeys, GEMINI_BATCH_SIZE : BatchSizeSettings]
    /\ main_pc = "parse_args"
    /\ exit_code = 0
    /\ source_read = FALSE
    /\ csvfile = NoFile
    /\ keywords = <<>>
    /\ batch_size = 0
    /\ pc = "idle"
    /\ i = 0
    /\ j = 0
    /\ batch = <<>>
    /\ all_results = <<>>
    /\ all_mappings = <<>>
    /\ all_batches = <<>>
    /\ calls = <<>>
    /\ in_flight = 0
    /\ result = <<>>
    /\ ParserNotCalled
    /\ DecodersNotCalled

\* parser.parse_args(): a value outside the choices of --prompt-type ends the
\* process with status 2, before the try of main
M_ParseArgs ==
    /\ main_pc = "parse_args"
    /\ IF args.prompt_type \in PromptTypeChoices
       THEN main_pc' = "settings" /\ exit_code' = exit_code
       ELSE Exit(2)
    /\ UNCHANGED <<run_vars, parse_vars, decode_vars, args, env, source_read, csvfile>>

\* Settings(...) and settings.validate_required_settings(...); an exception goes to
\* the except clause of main, which exits with status 1
M_Settings ==
    /\ main_pc = "settings"
    /\ IF gemini_batch_size(env).raised \/ validate_required_settings(env).raised
       THEN Exit(1)
       ELSE main_pc' = "validate" /\ exit_code' = exit_code
    /\ UNCHANGED <<run_vars, parse_vars, decode_vars, args, env, source_read, csvfile>>

\* the validation of the inputs: the column name and the output path are taken as
\* valid, the prompt type is checked against the available types
M_Validate ==
    /\ main_pc = "validate"
    /\ IF validate_prompt_type(args.prompt_type, get_available_types).raised
       THEN Exit(1)
       ELSE main_pc' = "load" /\ exit_code' = exit_code
    /\ UNCHANGED <<run_vars, parse_vars, decode_vars, args, env, source_read, csvfile>>

\* load_input_data and the test on an empty input
M_Load ==
    /\ main_pc = "load"
    /\ IF "missing" \in DOMAIN args.csv
       THEN /\ Exit(1)
            /\ UNCHANGED <<source_read, keywords>>
       ELSE /\ source_read' = TRUE
            /\ IF args.csv.column = <<>>
               THEN Exit(1) /\ keywords' = keywords
               ELSE /\ main_pc' = "construct"
                    /\ exit_code' = exit_code
                    /\ keywords' = args.csv.column
    /\ UNCHANGED <<mode, batch_size, pc, i, j, batch, all_results, all_mappings, all_batches,
                   calls, in_flight, result, parse_vars, decode_vars, args, env, csvfile>>

\* generate_quizlet_cards up to the call of the handler's method: the batch size is
\* resolved and the handler is built (its constructor raises without an API key)
M_Construct ==
    /\ main_pc = "construct"
    /\ IF ~HasApiKey(env)
       THEN /\ Exit(1)
            /\ UNCHANGED <<batch_size, pc>>
       ELSE /\ batch_size' = EffectiveBatchSize(args, env)
            /\ pc' = "start"
            /\ main_pc' = "generate"
            /\ exit_code' = exit_code
    /\ UNCHANGED <<mode, keywords, i, j, batch, all_results, all_mappings, all_batches,
                   calls, in_flight, result, parse_vars, decode_vars, args, env, source_read,
                   csvfile>>

\* the handler's method is over: its exception goes to the except clause of
\* generate_quizlet_cards, its result to the writer
M_Generated ==
    /\ main_pc = "generate"
    /\ pc \in {"done", "raised"}
    /\ IF pc = "raised" THEN Exit(1) ELSE main_pc' = "write" /\ exit_code' = exit_code
    /\ UNCHANGED <<run_vars, parse_vars, decode_vars, args, env, source_read, csvfile>>

\* csv_handler.write_quizlet_csv(args.output, results), then the end of main
M_Write ==
    /\ main_pc = "write"
    /\ LET w == write_quizlet_csv(result)
       IN  /\ csvfile' = w.file
           /\ Exit(IF w.outcome.raised THEN 1 ELSE 0)
    /\ UNCHANGED <<run_vars, parse_vars, decode_vars, args, env, source_read>>

NextMain ==
    \/ M_ParseArgs \/ M_Settings \/ M_Validate \/ M_Load \/ M_Construct
    \/ M_Generated \/ M_Write
    \/ Next

SpecMain == InitMain /\ [][NextMain]_vars

----------------------------------------------------------------------------
(* Claims on the batch size and on configuration errors.                    *)

\* the run has reached the chunking loop of one of the two workflows, or the
\* division before it
GenerationStarted == pc \notin {"idle", "start"}

\* C21 (as stated): the batch size in effect during generation is at least 1,
\* whatever the flag and the environment supply
BatchSizeAtLeastOne == (main_pc # "off" /\ GenerationStarted) => batch_size >= 1

\* the configuration errors: no API key, or a prompt type outside the choices
ConfigurationError == ~HasApiKey(env) \/ args.prompt_type \notin PromptTypeChoices

\* C22: a command-line run with a missing API key or an invalid prompt type never
\* gets past the parsing of the arguments and the check of the settings: the source
\* is not read, no transport call is issued, no output file is created, and the
\* process exits with a non-zero status
ConfigErrorEndsRunEarly ==
    (main_pc # "off" /\ ConfigurationError) =>
        /\ main_pc \in {"parse_args", "settings", "exited"}
        /\ main_pc = "exited" => exit_code # 0
        /\ ~source_read
        /\ calls = <<>>
        /\ in_flight = 0
        /\ pc = "idle"
        /\ ~csvfile.exists

\* a run without API key and with a valid prompt type has exited with status 1
ConfigErrorEndsRunEarlyWitness ==
    /\ main_pc = "exited"
    /\ ~HasApiKey(env)
    /\ args.prompt_type \in PromptTypeChoices
    /\ exit_code = 1

----------------------------------------------------------------------------
(* write_quizlet_csv called alone, on lists of cards with free text         *)

MaxFieldLen == 2
MaxPlainCards == 1

\* the characters of a field: a plain one, the delimiter, the quote, a line break
FieldTokens == {"a", ",", "\"", "\n"}

Fields == UNION {[1..n -> FieldTokens] : n \in 0..MaxFieldLen}

PlainCard == Card(<<"p">>, <<"q">>)

PlainCards(n) == [k \in 1..n |-> PlainCard]

\* what a result list holds besides cards with free text: a str, None, a dict
\* without the key 'definition'
Rows ==
    {Card(k, d) : k \in Fields, d \in Fields}
        \cup {StrValue(<<"s">>), NoneValue, [description |-> <<"x">>, keyword |-> <<"p">>]}

\* one free row among plain cards
WriteInputs ==
    {<<>>} \cup
    {PlainCards(m) \o <<r>> \o PlainCards(n) :
        m \in 0..MaxPlainCards, n \in 0..MaxPlainCards, r \in Rows}

InitWrite ==
    /\ mode = "write"
    /\ result \in WriteInputs
    /\ main_pc = "write"
    /\ args = <<>>
    /\ env = <<>>
    /\ exit_code = 0
    /\ source_read = FALSE
    /\ csvfile = NoFile
    /\ keywords = <<>>
    /\ batch_size = 0
    /\ pc = "idle"
    /\ i = 0
    /\ j = 0
    /\ batch = <<>>
    /\ all_results = <<>>
    /\ all_mappings = <<>>
    /\ all_batches = <<>>
    /\ calls = <<>>
    /\ in_flight = 0
    /\ ParserNotCalled
    /\ DecodersNotCalled

NextWrite == M_Write

SpecWrite == InitWrite /\ [][NextWrite]_vars

\* the writer has been called alone and is over
Written == mode = "write" /\ main_pc = "exited"

\* csv.reader with the default dialect, as an automaton over the characters: st is
\* "start" (at the start of a row), "field" (at the start of a field after a
\* delimiter), "plain" (in an unquoted field), "quoted" (in a quoted field) or
\* "quote" (after a quote inside a quoted field)
RECURSIVE CsvRead(_, _, _, _, _, _)
CsvRead(text, n, st, field, row, rows) ==
    IF n > Len(text)
    THEN IF st = "start" /\ row = <<>> THEN rows ELSE Append(rows, Append(row, field))
    ELSE LET c == text[n]
             EndRow == CsvRead(text,
                               IF c = "\r" /\ n < Len(text) /\ text[n + 1] = "\n"
                               THEN n + 2 ELSE n + 1,
                               "start", <<>>, <<>>,
                               Append(rows, IF st = "start" /\ row = <<>> THEN <<>>
                                            ELSE Append(row, field)))
             Take(next) == CsvRead(text, n + 1, next, Append(field, c), row, rows)
             \* a delimiter makes the row non-empty: the field before it stands
             Delimiter == CsvRead(text, n + 1, "field", <<>>, Append(row, field), rows)
         IN  CASE st = "quoted" ->
                    IF c = "\"" THEN CsvRead(text, n + 1, "quote", field, row, rows)
                    ELSE Take("quoted")
               [] st = "quote" /\ c = "\"" -> Take("quoted")
               [] c = "," -> Delimiter
               [] c \in {"\r", "\n"} -> EndRow
               [] st \in {"start", "field"} /\ c = "\"" ->
                    CsvRead(text, n + 1, "quoted", field, row, rows)
               [] OTHER -> Take("plain")

\* the rows a reader gets from the characters of a file
ReadCsv(text) == CsvRead(text, 1, "start", <<>>, <<>>, <<>>)

\* the two fields of every card, in card order
FieldsOf(cards) == [n \in 1..Len(cards) |-> <<cards[n].keyword, cards[n].definition>>]

\* a line per card made of the two fields as they are, a comma between them
RECURSIVE UnquotedLines(_)
UnquotedLines(cards) ==
    IF cards = <<>> THEN <<>>
    ELSE Head(cards).keyword \o <<",">> \o Head(cards).definition \o LineTerminator
         \o UnquotedLines(Tail(cards))

AllCards(rows) == \A n \in 1..Len(rows) : IsCardRecord(rows[n])

HasSpecial(cards) ==
    \E n \in 1..Len(cards) : NeedsQuotes(cards[n].keyword) \/ NeedsQuotes(cards[n].definition)

\* the number of line breaks of a text
LineBreaks(text) == Cardinality({n \in 1..Len(text) : text[n] = "\n"})

----------------------------------------------------------------------------
(* Termination of the two workflows.  The run is one thread: a statement that *)
(* can run does run, and every transport call returns or raises, so the step  *)
(* of the run is taken whenever one is possible.                              *)

FairSpec == Spec /\ WF_vars(Next)

\* C24: for every input list and every batch size of at least 1, against a backend
\* whose calls all return or fail, generate_definitions and
\* generate_algorithm_problems come to their return statement
RunTerminates == <>(pc = "done" /\ in_flight = 0)

\* a run that met a failed batched call and a failed per-item call has returned
RunTerminatesWitness ==
    /\ RunOver
    /\ batch_size >= 1
    /\ Len(keywords) >= 2
    /\ \E m, n \in 1..Len(calls) :
         /\ m < n
         /\ calls[m].outcome.kind = "error"
         /\ calls[n].outcome.kind = "error"
    /\ Len(result) >= 1

----------------------------------------------------------------------------
(* The two attempts of _parse_keyword_definition_response, read off the text *)
(* by positions.                                                             *)

\* the text handed to the parser
ParsedText == arg_response_text.str

\* the parser was called on a str and has returned
ParsedStr == ParseOver /\ IsStrValue(arg_response_text)

\* the pair returned, as two strs
ReturnedKeyword == parse_result.value[1].str
ReturnedDefinition == parse_result.value[2].str

\* the positions of the markers that start a line once the line is stripped
MarkerLines(t, marker) ==
    {k \in 1..Len(t) : t[k] = marker /\ AtLineStartAfterBlanks(t, k)}

\* the scan stops at the first line that starts with "Definition:"
ScanStops(t) == MarkerLines(t, "Definition:") # {}

\* the position where the scan is over: that line, or the end of the text
ScanEnd(t) == IF ScanStops(t) THEN SetMin(MarkerLines(t, "Definition:")) ELSE Len(t) + 1

\* what follows the marker at k on its line, trimmed
RestOfLine(t, k) ==
    LET breaks == {m \in (k + 1)..Len(t) : t[m] = "\n"}
        end == IF breaks = {} THEN Len(t) + 1 ELSE SetMin(breaks)
    IN  Strip(SubSeq(t, k + 1, end - 1))

\* the keyword the scan ends with: the rest of the last "Keyword:" line before the
\* end of the scan, or the fallback keyword
ScannedKeyword(t, fb) ==
    LET before == {k \in MarkerLines(t, "Keyword:") : k < ScanEnd(t)}
    IN  IF before = {} THEN fb ELSE RestOfLine(t, SetMax(before))

FirstMarker(t, marker) == SetMin({k \in 1..Len(t) : t[k] = marker})

\* the first "Keyword:" of the text comes before its first "Definition:"
KeywordComesFirst(t) ==
    HasBothMarkers(t) /\ FirstMarker(t, "Keyword:") < FirstMarker(t, "Definition:")

\* the pair of the positional attempt: the text between the two first markers and
\* the text after the first "Definition:", both trimmed
PositionalPair(t) ==
    <<Strip(SubSeq(t, FirstMarker(t, "Keyword:") + 1, FirstMarker(t, "Definition:") - 1)),
      Strip(SubSeq(t, FirstMarker(t, "Definition:") + 1, Len(t)))>>

ReturnedStrs == <<ReturnedKeyword, ReturnedDefinition>>

ScanYieldsNoDefinition(t) ==
    ~ScanStops(t) \/ RestOfLine(t, ScanEnd(t)) = <<>>

\* C26 (as stated): when the scan yields no definition and the text holds both
\* markers, the pair returned is the positional one
PositionalWhenBothMarkers ==
    (ParsedStr /\ ScanYieldsNoDefinition(ParsedText) /\ HasBothMarkers(ParsedText)) =>
        ReturnedStrs = PositionalPair(ParsedText)

\* C26 (amended): when the scan yields no definition and the text holds both
\* markers, the pair returned is the positional one if the first "Keyword:" comes
\* before the first "Definition:"; otherwise it is the pair the scan ended with:
\* its keyword, and the whole text or, after a "Definition:" line with an empty
\* rest, the empty definition
PositionalWhenKeywordComesFirst ==
    (ParsedStr /\ ScanYieldsNoDefinition(ParsedText) /\ HasBothMarkers(ParsedText)) =>
        IF KeywordComesFirst(ParsedText)
        THEN ReturnedStrs = PositionalPair(ParsedText)
        ELSE ReturnedStrs = <<ScannedKeyword(ParsedText, arg_fallback_keyword),
                              IF ScanStops(ParsedText) THEN <<>> ELSE ParsedText>>

\* both markers in the middle of one line, "Keyword:" first
PositionalWhenKeywordComesFirstWitness ==
    /\ ParsedStr
    /\ ParsedText = <<"a", "Keyword:", "a", "Definition:", "a">>
    /\ ReturnedStrs = <<<<"a">>, <<"a">>>>

----------------------------------------------------------------------------
(* The three batch parsers called alone on the text of a reply               *)

MaxReplyLen == 4
MaxArrayLen == 2

ReplyTokens ==
    {"[", "]", ",", "{kw:p,def:q}", "{desc:x,kw:p}", "null", "\n", "<fence>json", "<fence>"}

ReplyTexts == UNION {[1..n -> ReplyTokens] : n \in 0..MaxReplyLen}

ArrayValues == {"{kw:p,def:q}", "{desc:x,kw:p}", "\"s\""}

\* the JSON text of the array of the given values
RECURSIVE Commas(_)
Commas(values) ==
    IF Len(values) <= 1 THEN values
    ELSE <<Head(values), ",">> \o Commas(Tail(values))

ArrayText(values) == <<"[">> \o Commas(values) \o <<"]">>

Arrays == {ArrayText(v) : v \in UNION {[1..n -> ArrayValues] : n \in 0..MaxArrayLen}}

LeadingFences == {<<>>, <<"<fence>json">>, <<"<fence>">>}
TrailingFences == {<<>>, <<"<fence>">>}
LineBreakOrNot == {<<>>, <<"\n">>}

\* an array between a leading fence and a trailing fence, each of them optional
Wrap(lead, ws1, array, ws2, trail) == lead \o ws1 \o array \o ws2 \o trail

WrappedTexts ==
    {Wrap(lead, ws1, array, ws2, trail) :
        lead \in LeadingFences, ws1 \in LineBreakOrNot, array \in Arrays,
        ws2 \in LineBreakOrNot, trail \in TrailingFences}

\* the batch the parsers are called for; they use its length for a warning only
DecodeBatch == <<<<"x">>>>

InitDecode ==
    /\ mode = "decode"
    /\ reply_text \in ReplyTexts \cup WrappedTexts
    /\ decode_result = <<>>
    /\ keywords = <<>>
    /\ batch_size = 1
    /\ pc = "start"
    /\ i = 0
    /\ j = 0
    /\ batch = <<>>
    /\ all_results = <<>>
    /\ all_mappings = <<>>
    /\ all_batches = <<>>
    /\ calls = <<>>
    /\ in_flight = 0
    /\ result = <<>>
    /\ ParserNotCalled
    /\ MainNotRun

\* each of the three parsers is applied to the reply
Decode ==
    /\ mode = "decode"
    /\ pc = "start"
    /\ decode_result' =
          [definitions |-> generate_batch_definitions(DecodeBatch, Text(reply_text)),
           keywords |-> keywords_batch_try(<<>>, Text(reply_text)),
           leetcode |-> generate_leetcode_definitions_batch(PairsOf(<<>>), Text(reply_text))]
    /\ pc' = "done"
    /\ UNCHANGED <<mode, keywords, batch_size, i, j, batch, all_results, all_mappings,
                   all_batches, calls, in_flight, result, parse_vars, main_vars, reply_text>>

NextDecode == Decode

SpecDecode == InitDecode /\ [][NextDecode]_vars

DecodeOver == mode = "decode" /\ pc = "done"

\* the tokens of the reply that are neither white space nor fences
IsJsonToken(tok) == tok \notin {" ", "\n", "<fence>json", "<fence>"}

JsonTokens(t) == SelectSeq(t, IsJsonToken)

JsonValues == ObjectLexemes \cup StringLexemes \cup {"null"}

\* the tokens are those of one JSON value: a value alone, or an array of values
IsJsonValue(l) ==
    \/ Len(l) = 1 /\ l[1] \in JsonValues
    \/ /\ Len(l) >= 2
       /\ l[1] = "["
       /\ l[Len(l)] = "]"
       /\ Len(l) > 2 => Len(l) % 2 = 1
       /\ \A k \in 2..(Len(l) - 1) : IF k % 2 = 0 THEN l[k] \in JsonValues ELSE l[k] = ","

\* the values of a JSON array, in order
ArrayRecords(l) == [k \in 1..((Len(l) - 1) \div 2) |-> ElementOf(l[2 * k])]

\* the records a parser may return for the reply: those of the whole array (or,
\* for a JSON object or a JSON string, what iterating it yields)
IsWholeValue(recs, l) ==
    IF l[1] = "[" THEN recs = ArrayRecords(l) ELSE Len(l) = 1

StrictParsers == {"definitions", "leetcode"}

\* C27: _generate_batch_definitions and _generate_leetcode_definitions_batch raise
\* ValueError on every reply that is not the text of a JSON value, fences
\* aside; they return records only for a reply that is the text of a whole JSON
\* value, and then the records of the whole value, never those read before an error
ParsersRaiseOnUndecodable ==
    DecodeOver =>
        \A parser \in StrictParsers :
            /\ ~IsJsonValue(JsonTokens(reply_text)) =>
                   /\ decode_result[parser].raised
                   /\ decode_result[parser].type = "ValueError"
            /\ ~decode_result[parser].raised =>
                   /\ IsJsonValue(JsonTokens(reply_text))
                   /\ IsWholeValue(decode_result[parser].value, JsonTokens(reply_text))

\* an array cut after its first record makes both parsers raise
ParsersRaiseOnUndecodableWitness ==
    /\ DecodeOver
    /\ reply_text = <<"[", "{kw:p,def:q}", ",">>
    /\ \A parser \in StrictParsers :
         decode_result[parser].raised /\ decode_result[parser].type = "ValueError"

\* what the three parsers make of a text
DecodedBy(t) ==
    [definitions |-> generate_batch_definitions(DecodeBatch, Text(t)),
     keywords |-> keywords_batch_try(<<>>, Text(t)),
     leetcode |-> generate_leetcode_definitions_batch(PairsOf(<<>>), Text(t))]

\* the reply is the given array between fences
IsWrapped(t, array) ==
    \E lead \in LeadingFences, ws1 \in LineBreakOrNot, ws2 \in LineBreakOrNot,
       trail \in TrailingFences :
        /\ t = Wrap(lead, ws1, array, ws2, trail)
        /\ lead # <<>> \/ trail # <<>>

\* C28: a reply made of a JSON array between a leading fence (tagged json or not)
\* and/or a trailing fence is decoded by each of the three batch parsers to what
\* the parser makes of the bare array; for the two parsers of definitions that is
\* the list of the records of the array
FencesDoNotChangeRecords ==
    DecodeOver =>
        \A array \in Arrays :
            IsWrapped(reply_text, array) =>
                /\ decode_result = DecodedBy(array)
                /\ \A parser \in StrictParsers :
                     decode_result[parser] = Ret(ArrayRecords(array))

\* a two-record array between a tagged fence and a closing fence has been decoded
FencesDoNotChangeRecordsWitness ==
    /\ DecodeOver
    /\ reply_text = <<"<fence>json", "\n", "[", "{kw:p,def:q}", ",", "{desc:x,kw:p}", "]",
                      "\n", "<fence>">>
    /\ decode_result.definitions = Ret(<<ObjectOf("{kw:p,def:q}"), ObjectOf("{desc:x,kw:p}")>>)
    /\ decode_result.keywords.mappings = <<<<<<"x">>, <<"p">>>>>>

----------------------------------------------------------------------------
(* Frame of the accumulating lists *)

IsPrefixOf(s, t) == Len(s) <= Len(t) /\ SubSeq(t, 1, Len(s)) = s

\* C29: every step of a run leaves the cards already in the accumulating list where
\* they are: the list after the step starts with the list before it, whatever the
\* step (a batch that succeeds, a batch that fails, a per-item call that succeeds
\* or fails), and the list returned is the accumulated one
ResultsAppendOnly ==
    [][/\ IsPrefixOf(all_results, all_results')
       /\ (pc # "done" /\ pc' = "done" /\ all_results # <<>>) => result' = all_results]_vars

\* a run whose first batch gave a card and whose last call failed has returned, the
\* card of the first batch still at the head of the list
ResultsAppendOnlyWitness ==
    /\ RunOver
    /\ mode = "definitions"
    /\ Len(result) >= 2
    /\ calls[1].outcome = Text(<<"[", "{kw:p,def:q}", "]">>)
    /\ calls[Len(calls)].outcome.kind = "error"
    /\ result[1] = ObjectOf("{kw:p,def:q}")

----------------------------------------------------------------------------
(* The two phases of generate_algorithm_problems *)

IsLeetcodeCall(c) == IsLeetcodeBatchCall(c) \/ IsLeetcodeSingleCall(c)

\* phase 2 has started: _generate_keywords_batch has returned its mapping
PhaseTwoStarted == IsAlgorithmProblems /\ pc \in {"def_loop", "def_fallback", "done"}

\* in the log every keyword call comes before every definition call of phase 2
KeywordCallsFirst(log) ==
    \A m, n \in 1..Len(log) :
        (IsLeetcodeCall(log[m]) /\ IsKeywordCall(log[n])) => n < m

\* C30: in generate_algorithm_problems every keyword call, batched or individual, is
\* issued before the first definition call of phase 2, no transport call is issued
\* for a keyword once phase 2 has started, and no step of phase 2 changes the
\* mapping of phase 1
PhasesDoNotInterleave ==
    [][/\ KeywordCallsFirst(calls')
       /\ PhaseTwoStarted =>
             /\ all_mappings' = all_mappings
             /\ \A n \in (Len(calls) + 1)..Len(calls') : ~IsKeywordCall(calls'[n])]_vars

\* a run with a batched and an individual keyword call, then a batched and an
\* individual definition call, has returned with the mapping of phase 1
PhasesDoNotInterleaveWitness ==
    /\ RunOver
    /\ IsAlgorithmProblems
    /\ \E a, b, c, d \in 1..Len(calls) :
         /\ a < b /\ b < c /\ c < d
         /\ IsKeywordBatchCall(calls[a])
         /\ IsKeywordSingleCall(calls[b])
         /\ IsLeetcodeBatchCall(calls[c])
         /\ IsLeetcodeSingleCall(calls[d])
    /\ all_mappings # <<>>
    /\ Len(result) = Len(all_mappings)

====
